---- MODULE Spec2Model ----
(***************************************************************************)
(* Location repository (lambda/internal/repository) over a DynamoDB table  *)
(* with primary key (PK = locationId, SK = accountId) and a secondary      *)
(* index keyed by accountId.                                               *)
(*                                                                         *)
(* Go values are modelled as follows.                                      *)
(*   string            a TLA+ string                                       *)
(*   error             the chain of messages built by fmt.Errorf("..: %w") *)
(*                     as a sequence of strings, <<>> for nil              *)
(*   map / pointer     [null |-> BOOLEAN, ...] (null = nil)                *)
(*   float64           an integer                                          *)
(*   base64 / JSON     a sequence of string tokens                         *)
(***************************************************************************)
EXTENDS Integers, Sequences, FiniteSets, TLC

VARIABLES
    table,       \* the items of the DynamoDB table
    indexOrder,  \* the order in which the secondary index yields one account's items
    last,        \* the last repository call: operation, arguments, result
    sess         \* the List calls chained through their cursors since the last write

vars == <<table, indexOrder, last, sess>>

(***************************************************************************)
(* Bounds                                                                  *)
(***************************************************************************)
MaxUuids == 2
\* Records of one account in the tables that exceed the default page size.
MaxPageRecords == 21
\* The most records the table holds: under Spec, and under SpecList.
MaxRecords == MaxUuids
MaxListRecords == MaxUuids + 1

Accounts == {"acc-1", "acc-2"}

(***************************************************************************)
(* Sequence helpers                                                        *)
(***************************************************************************)
Range(s) == {s[i] : i \in DOMAIN s}

NoDup(s) == \A i, j \in DOMAIN s : s[i] = s[j] => i = j

Perms(S) == {p \in [1..Cardinality(S) -> S] : Range(p) = S}

IndexOf(s, x) == IF x \in Range(s) THEN CHOOSE i \in DOMAIN s : s[i] = x ELSE 0

Contains(err, msg) == \E i \in DOMAIN err : err[i] = msg

(***************************************************************************)
(* uuid.New().String()                                                     *)
(***************************************************************************)
HexDigit == <<"0", "1", "2", "3", "4", "5", "6", "7",
              "8", "9", "a", "b", "c", "d", "e", "f">>

Hex2(b) == HexDigit[(b \div 16) + 1] \o HexDigit[(b % 16) + 1]

\* A version-4 UUID: 16 bytes, version nibble 4 in byte 7, variant bits 10 in
\* byte 9; n stands for the random bits.
NewUUID(n) ==
    [i \in 1..16 |-> IF i = 7 THEN 64 ELSE IF i = 9 THEN 128 ELSE IF i = 16 THEN n ELSE 0]

\* xxxxxxxx-xxxx-xxxx-xxxx-xxxxxxxxxxxx
UUIDString(u) ==
    Hex2(u[1]) \o Hex2(u[2]) \o Hex2(u[3]) \o Hex2(u[4]) \o "-" \o
    Hex2(u[5]) \o Hex2(u[6]) \o "-" \o
    Hex2(u[7]) \o Hex2(u[8]) \o "-" \o
    Hex2(u[9]) \o Hex2(u[10]) \o "-" \o
    Hex2(u[11]) \o Hex2(u[12]) \o Hex2(u[13]) \o Hex2(u[14]) \o Hex2(u[15]) \o Hex2(u[16])

\* The identifiers uuid.New() can return, in ascending string order.
UuidPool == [n \in 1..MaxUuids |-> UUIDString(NewUUID(n))]

LocationIds == Range(UuidPool)

\* Ascending order of identifier strings (byte-wise, as DynamoDB orders S values).
IdLess(x, y) == IndexOf(UuidPool, x) < IndexOf(UuidPool, y)

(***************************************************************************)
(* models: Location variants and validation                                *)
(***************************************************************************)
LocationTypeAddress == "address"
LocationTypeCoordinates == "coordinates"
LocationTypeShop == "shop"

NilMap == [null |-> TRUE, entries |-> {}]
EmptyMap == [null |-> FALSE, entries |-> {}]
AcmeMap == [null |-> FALSE, entries |-> {<<"businessName", "Acme Corp">>}]

NilFloat == [null |-> TRUE, val |-> 0]
Float(v) == [null |-> FALSE, val |-> v]

Address(street, street2, city, state, postal, country) ==
    [city |-> city, country |-> country, streetAddress |-> street,
     streetAddress2 |-> street2, stateProvince |-> state, postalCode |-> postal]

Coordinates(lat, lon, alt, acc) ==
    [latitude |-> lat, longitude |-> lon, altitude |-> alt, accuracy |-> acc]

Shop(name, contact, addr) == [name |-> name, contactId |-> contact, address |-> addr]

AddressLocation(acct, tag, ext, addr) ==
    [address |-> addr, variant |-> "AddressLocation", accountId |-> acct,
     locationType |-> tag, extendedAttributes |-> ext]

CoordinatesLocation(acct, tag, ext, coords) ==
    [variant |-> "CoordinatesLocation", accountId |-> acct, locationType |-> tag,
     extendedAttributes |-> ext, coordinates |-> coords]

ShopLocation(acct, tag, ext, shop) ==
    [variant |-> "ShopLocation", accountId |-> acct, locationType |-> tag,
     extendedAttributes |-> ext, shop |-> shop]

\* Address.Validate without the check of the country's length.
AddressValidate_AnyCountry(a) ==
    IF a.streetAddress = "" THEN <<"streetAddress is required">>
    ELSE IF a.city = "" THEN <<"city is required">>
    ELSE IF a.postalCode = "" THEN <<"postalCode is required">>
    ELSE IF a.country = "" THEN <<"country is required">>
    ELSE <<>>

AddressValidate(a) ==
    IF a.streetAddress = "" THEN <<"streetAddress is required">>
    ELSE IF a.city = "" THEN <<"city is required">>
    ELSE IF a.postalCode = "" THEN <<"postalCode is required">>
    ELSE IF a.country = "" THEN <<"country is required">>
    ELSE IF Len(a.country) # 2
        THEN <<"country must be a 2-character ISO 3166-1 alpha-2 code">>
    ELSE <<>>

CoordinatesValidate(c) ==
    IF c.latitude < -90 \/ c.latitude > 90
        THEN <<"latitude must be between -90 and 90">>
    ELSE IF c.longitude < -180 \/ c.longitude > 180
        THEN <<"longitude must be between -180 and 180">>
    ELSE IF ~c.accuracy.null /\ c.accuracy.val < 0
        THEN <<"accuracy must be non-negative">>
    ELSE <<>>

ShopValidate(s) ==
    IF s.name = "" THEN <<"name is required">>
    ELSE IF s.contactId = "" THEN <<"contactId is required">>
    ELSE AddressValidate(s.address)

AddressLocationValidate(l) ==
    IF l.accountId = "" THEN <<"accountId is required">>
    ELSE IF l.locationType # LocationTypeAddress
        THEN <<"invalid locationType for AddressLocation">>
    ELSE AddressValidate(l.address)

CoordinatesLocationValidate(l) ==
    IF l.accountId = "" THEN <<"accountId is required">>
    ELSE IF l.locationType # LocationTypeCoordinates
        THEN <<"invalid locationType for CoordinatesLocation">>
    ELSE CoordinatesValidate(l.coordinates)

ShopLocationValidate(l) ==
    IF l.accountId = "" THEN <<"accountId is required">>
    ELSE IF l.locationType # LocationTypeShop
        THEN <<"invalid locationType for ShopLocation">>
    ELSE ShopValidate(l.shop)

\* location.Validate(): dispatch on the concrete type behind the interface.
Validate(l) ==
    CASE l.variant = "AddressLocation" -> AddressLocationValidate(l)
      [] l.variant = "CoordinatesLocation" -> CoordinatesLocationValidate(l)
      [] l.variant = "ShopLocation" -> ShopLocationValidate(l)

(***************************************************************************)
(* repository: locationRecord and its mappings                             *)
(***************************************************************************)
ZeroAddress == Address("", "", "", "", "", "")
ZeroCoordinates == Coordinates(0, 0, NilFloat, NilFloat)

NilAddress == [null |-> TRUE, val |-> ZeroAddress]
NilCoordinates == [null |-> TRUE, val |-> ZeroCoordinates]

NoRecord ==
    [PK |-> "", SK |-> "", AccountID |-> "", LocationType |-> "",
     ExtendedAttributes |-> NilMap, Address |-> NilAddress, Coordinates |-> NilCoordinates]

NoLocation == [variant |-> "nil"]

\* toLocationRecord with the two key attributes exchanged.
toLocationRecord_KeysSwapped(location, locationID) ==
    LET record == [PK |-> location.accountId,
                   SK |-> locationID,
                   AccountID |-> location.accountId,
                   LocationType |-> location.locationType,
                   ExtendedAttributes |-> location.extendedAttributes,
                   Address |-> NilAddress,
                   Coordinates |-> NilCoordinates]
    IN  CASE location.variant = "AddressLocation" ->
               [err |-> <<>>,
                record |-> [record EXCEPT !.Address = [null |-> FALSE, val |-> location.address]]]
          [] location.variant = "CoordinatesLocation" ->
               [err |-> <<>>,
                record |-> [record EXCEPT !.Coordinates =
                                            [null |-> FALSE, val |-> location.coordinates]]]
          [] OTHER -> [err |-> <<"unknown location type">>, record |-> NoRecord]

\* toLocationRecord: the type switch knows AddressLocation and CoordinatesLocation.
toLocationRecord(location, locationID) ==
    LET record == [PK |-> locationID,
                   SK |-> location.accountId,
                   AccountID |-> location.accountId,
                   LocationType |-> location.locationType,
                   ExtendedAttributes |-> location.extendedAttributes,
                   Address |-> NilAddress,
                   Coordinates |-> NilCoordinates]
    IN  CASE location.variant = "AddressLocation" ->
               [err |-> <<>>,
                record |-> [record EXCEPT !.Address = [null |-> FALSE, val |-> location.address]]]
          [] location.variant = "CoordinatesLocation" ->
               [err |-> <<>>,
                record |-> [record EXCEPT !.Coordinates =
                                            [null |-> FALSE, val |-> location.coordinates]]]
          [] OTHER -> [err |-> <<"unknown location type">>, record |-> NoRecord]

\* toLocation without the nil checks: a missing block gives the zero shape.
toLocation_NoGuard(r) ==
    CASE r.LocationType = LocationTypeAddress ->
           [err |-> <<>>,
            location |-> AddressLocation(r.AccountID, r.LocationType,
                                         r.ExtendedAttributes, r.Address.val)]
      [] r.LocationType = LocationTypeCoordinates ->
           [err |-> <<>>,
            location |-> CoordinatesLocation(r.AccountID, r.LocationType,
                                             r.ExtendedAttributes, r.Coordinates.val)]
      [] OTHER -> [err |-> <<"unknown location type", r.LocationType>>, location |-> NoLocation]

\* locationRecord.toLocation
toLocation(r) ==
    CASE r.LocationType = LocationTypeAddress ->
           IF r.Address.null
           THEN [err |-> <<"address is nil for address location type">>, location |-> NoLocation]
           ELSE [err |-> <<>>,
                 location |-> AddressLocation(r.AccountID, r.LocationType,
                                              r.ExtendedAttributes, r.Address.val)]
      [] r.LocationType = LocationTypeCoordinates ->
           IF r.Coordinates.null
           THEN [err |-> <<"coordinates is nil for coordinates location type">>,
                 location |-> NoLocation]
           ELSE [err |-> <<>>,
                 location |-> CoordinatesLocation(r.AccountID, r.LocationType,
                                                  r.ExtendedAttributes, r.Coordinates.val)]
      [] OTHER -> [err |-> <<"unknown location type", r.LocationType>>, location |-> NoLocation]

(***************************************************************************)
(* attributevalue.MarshalMap / UnmarshalMap with the dynamodbav tags.      *)
(* An item is a function from the names of the attributes it has to their  *)
(* values; an attribute tagged omitempty is left out when it is empty.     *)
(* A nil map is empty; whether a map that is not nil and has no entries is *)
(* empty too is the library's choice (omitEmptyMap).                       *)
(***************************************************************************)
MarshalAddress(a) ==
    [n \in {"streetAddress", "city", "postalCode", "country"}
           \cup (IF a.streetAddress2 = "" THEN {} ELSE {"streetAddress2"})
           \cup (IF a.stateProvince = "" THEN {} ELSE {"stateProvince"}) |-> a[n]]

UnmarshalAddress(m) ==
    [n \in DOMAIN ZeroAddress |-> IF n \in DOMAIN m THEN m[n] ELSE ""]

MarshalCoordinates(c) ==
    [n \in {"latitude", "longitude"}
           \cup (IF c.altitude.null THEN {} ELSE {"altitude"})
           \cup (IF c.accuracy.null THEN {} ELSE {"accuracy"}) |->
        IF n \in {"altitude", "accuracy"} THEN c[n].val ELSE c[n]]

UnmarshalCoordinates(m) ==
    [n \in DOMAIN ZeroCoordinates |->
        IF n \in {"altitude", "accuracy"}
        THEN (IF n \in DOMAIN m THEN Float(m[n]) ELSE NilFloat)
        ELSE (IF n \in DOMAIN m THEN m[n] ELSE 0)]

MarshalMap(r, omitEmptyMap) ==
    [n \in {"PK", "SK", "accountId", "locationType"}
           \cup (IF r.ExtendedAttributes.null
                    \/ (omitEmptyMap /\ r.ExtendedAttributes.entries = {})
                 THEN {} ELSE {"extendedAttributes"})
           \cup (IF r.Address.null THEN {} ELSE {"address"})
           \cup (IF r.Coordinates.null THEN {} ELSE {"coordinates"}) |->
        CASE n = "PK" -> r.PK
          [] n = "SK" -> r.SK
          [] n = "accountId" -> r.AccountID
          [] n = "locationType" -> r.LocationType
          [] n = "extendedAttributes" -> r.ExtendedAttributes.entries
          [] n = "address" -> MarshalAddress(r.Address.val)
          [] n = "coordinates" -> MarshalCoordinates(r.Coordinates.val)]

UnmarshalMap(item) ==
    [PK |-> IF "PK" \in DOMAIN item THEN item.PK ELSE "",
     SK |-> IF "SK" \in DOMAIN item THEN item.SK ELSE "",
     AccountID |-> IF "accountId" \in DOMAIN item THEN item.accountId ELSE "",
     LocationType |-> IF "locationType" \in DOMAIN item THEN item.locationType ELSE "",
     ExtendedAttributes |->
        IF "extendedAttributes" \in DOMAIN item
        THEN [null |-> FALSE, entries |-> item.extendedAttributes] ELSE NilMap,
     Address |->
        IF "address" \in DOMAIN item
        THEN [null |-> FALSE, val |-> UnmarshalAddress(item.address)] ELSE NilAddress,
     Coordinates |->
        IF "coordinates" \in DOMAIN item
        THEN [null |-> FALSE, val |-> UnmarshalCoordinates(item.coordinates)]
        ELSE NilCoordinates]

(***************************************************************************)
(* The DynamoDB table: hash key PK, range key SK; one item per (PK, SK).   *)
(***************************************************************************)
ItemAt(t, pk, sk) == {it \in t : it.PK = pk /\ it.SK = sk}

\* One atom of a condition expression evaluated on the item stored under the
\* key of the request (it is a set: empty when no item has that key).
EvalAtom(atom, existing, values) ==
    CASE atom.fn = "attribute_not_exists" ->
           \A it \in existing : atom.attr \notin DOMAIN it
      [] atom.fn = "attribute_exists" ->
           \E it \in existing : atom.attr \in DOMAIN it
      [] atom.fn = "=" ->
           \E it \in existing : atom.attr \in DOMAIN it /\ it[atom.attr] = values[atom.val]

\* A condition expression: the conjunction (AND) of its atoms.
EvalCondition(cond, existing, values) ==
    \A i \in DOMAIN cond : EvalAtom(cond[i], existing, values)

ConditionalCheckFailed == "ConditionalCheckFailedException"
StoreFailure == "InternalServerError"

\* PutItem: replaces the item with the same primary key when the condition holds.
PutItem(t, item, cond, values, storeOk) ==
    LET existing == ItemAt(t, item.PK, item.SK)
    IN  IF ~storeOk THEN [err |-> StoreFailure, table |-> t]
        ELSE IF ~EvalCondition(cond, existing, values)
        THEN [err |-> ConditionalCheckFailed, table |-> t]
        ELSE [err |-> "", table |-> (t \ existing) \cup {item}]

DeleteItem(t, pk, sk, cond, values, storeOk) ==
    LET existing == ItemAt(t, pk, sk)
    IN  IF ~storeOk THEN [err |-> StoreFailure, table |-> t]
        ELSE IF ~EvalCondition(cond, existing, values)
        THEN [err |-> ConditionalCheckFailed, table |-> t]
        ELSE [err |-> "", table |-> t \ existing]

GetItem(t, pk, sk, storeOk) ==
    IF ~storeOk THEN [err |-> StoreFailure, item |-> {}]
    ELSE [err |-> "", item |-> ItemAt(t, pk, sk)]

(***************************************************************************)
(* The secondary index: hash key accountId, no range key, all attributes   *)
(* projected.  Query returns the items of one account in the order of the  *)
(* index, which is fixed but is not an order of any attribute.             *)
(***************************************************************************)
NilKey == [null |-> TRUE, PK |-> "", SK |-> "", accountId |-> ""]
Key(pk, sk, acct) == [null |-> FALSE, PK |-> pk, SK |-> sk, accountId |-> acct]

ValidationFailure == "ValidationException"

\* The primary keys (PK) of one account's items that follow the start key, in
\* index order.
IndexAfter(t, order, accountID, startKey) ==
    LET from == IF startKey.null THEN 0 ELSE IndexOf(order, startKey.PK)
        has(pk) == \E it \in t : it.accountId = accountID /\ it.PK = pk
    IN  SelectSeq(SubSeq(order, from + 1, Len(order)), has)

\* Query on the index with KeyConditionExpression accountId = :accountId, a
\* Limit and an ExclusiveStartKey.  lekAtEnd: whether a page that ends with the
\* last item of the account still reports a LastEvaluatedKey (DynamoDB stops at
\* Limit without looking further).
Query(t, order, accountID, limit, startKey, lekAtEnd, storeOk) ==
    LET rest == IndexAfter(t, order, accountID, startKey)
        n == IF Len(rest) < limit THEN Len(rest) ELSE limit
        page == SubSeq(rest, 1, n)
        more == Len(rest) > n \/ (Len(rest) = n /\ n = limit /\ lekAtEnd)
        item(pk) == CHOOSE it \in t : it.accountId = accountID /\ it.PK = pk
    IN  IF ~storeOk THEN [err |-> StoreFailure, Items |-> <<>>, LastEvaluatedKey |-> NilKey]
        ELSE IF limit < 1 \/ (~startKey.null /\ startKey.accountId # accountID)
        THEN [err |-> ValidationFailure, Items |-> <<>>, LastEvaluatedKey |-> NilKey]
        ELSE [err |-> "",
              Items |-> [i \in 1..n |-> item(page[i])],
              LastEvaluatedKey |->
                 IF more /\ n > 0
                 THEN Key(item(page[n]).PK, item(page[n]).SK, accountID)
                 ELSE NilKey]

(***************************************************************************)
(* repository: pagination cursor, base64(JSON(paginationCursor)).          *)
(* A text is a sequence of tokens; the empty string is <<>>.               *)
(***************************************************************************)
NilString == [null |-> TRUE, val |-> <<>>]
StringPtr(s) == [null |-> FALSE, val |-> s]

NilCursor == [null |-> TRUE, PK |-> "", SK |-> "", AccountID |-> ""]

JSONMarshal(c) == <<"{", "pk", c.PK, "sk", c.SK, "accountId", c.AccountID, "}">>

\* json.Unmarshal into paginationCursor: an object; fields are found by name,
\* unknown names are skipped, absent ones keep the zero value.
JSONValid(data) ==
    /\ Len(data) >= 2
    /\ data[1] = "{"
    /\ data[Len(data)] = "}"
    /\ Len(data) % 2 = 0

JSONField(data, name) ==
    LET at == {i \in 1..((Len(data) - 2) \div 2) : data[2 * i] = name}
    IN  IF at = {} THEN "" ELSE data[2 * (CHOOSE i \in at : \A j \in at : j <= i) + 1]

Base64Encode(data) == <<"base64">> \o data

Base64Valid(s) == Len(s) >= 1 /\ s[1] = "base64"

Base64Decode(s) == Tail(s)

encodeCursor(cursor) ==
    IF cursor.null THEN NilString ELSE StringPtr(Base64Encode(JSONMarshal(cursor)))

decodeCursor(cursorStr) ==
    IF cursorStr.null \/ cursorStr.val = <<>> THEN [err |-> <<>>, cursor |-> NilCursor]
    ELSE IF ~Base64Valid(cursorStr.val)
    THEN [err |-> <<"failed to decode cursor", "illegal base64 data">>, cursor |-> NilCursor]
    ELSE IF ~JSONValid(Base64Decode(cursorStr.val))
    THEN [err |-> <<"failed to unmarshal cursor", "invalid character">>, cursor |-> NilCursor]
    ELSE [err |-> <<>>,
          cursor |-> [null |-> FALSE,
                      PK |-> JSONField(Base64Decode(cursorStr.val), "pk"),
                      SK |-> JSONField(Base64Decode(cursorStr.val), "sk"),
                      AccountID |-> JSONField(Base64Decode(cursorStr.val), "accountId")]]

cursorToLastEvaluatedKey(cursor) ==
    IF cursor.null THEN NilKey ELSE Key(cursor.PK, cursor.SK, cursor.AccountID)

\* lastEvaluatedKeyToCursor that leaves the PK of the cursor unset.
lastEvaluatedKeyToCursor_NoPK(lek) ==
    IF lek.null THEN NilCursor
    ELSE [null |-> FALSE, PK |-> "", SK |-> lek.SK, AccountID |-> lek.accountId]

lastEvaluatedKeyToCursor(lek) ==
    IF lek.null THEN NilCursor
    ELSE [null |-> FALSE, PK |-> lek.PK, SK |-> lek.SK, AccountID |-> lek.accountId]

(***************************************************************************)
(* repository: DynamoDBRepository                                          *)
(***************************************************************************)
\* A repository with a default page size below 20.
defaultLimit_Half == MaxPageRecords \div 2

defaultLimit == 20

Atom(fn, attr, val) == [fn |-> fn, attr |-> attr, val |-> val]

NoValues == [n \in {} |-> ""]
AccountValue(accountID) == [n \in {":accountId"} |-> accountID]

\* "attribute_not_exists(PK) AND attribute_not_exists(SK)"
CreateCondition ==
    <<Atom("attribute_not_exists", "PK", ""), Atom("attribute_not_exists", "SK", "")>>

\* A put and a delete without condition expression.
OwnedCondition_Missing == <<>>

\* "attribute_exists(PK) AND attribute_exists(SK) AND accountId = :accountId"
OwnedCondition ==
    <<Atom("attribute_exists", "PK", ""), Atom("attribute_exists", "SK", ""),
      Atom("=", "accountId", ":accountId")>>

\* Create, with locationID the value uuid.New().String() returns.
Create(t, location, locationID, omitEmptyMap, storeOk) ==
    LET verr == Validate(location)
        conv == toLocationRecord(location, locationID)
        put == PutItem(t, MarshalMap(conv.record, omitEmptyMap), CreateCondition, NoValues,
                       storeOk)
    IN  IF verr # <<>>
        THEN [err |-> <<"validation failed">> \o verr, id |-> "", table |-> t, requests |-> 0]
        ELSE IF conv.err # <<>>
        THEN [err |-> <<"failed to convert location to record">> \o conv.err,
              id |-> "", table |-> t, requests |-> 0]
        ELSE IF put.err = ConditionalCheckFailed
        THEN [err |-> <<"location already exists">>, id |-> "",
              table |-> put.table, requests |-> 1]
        ELSE IF put.err # ""
        THEN [err |-> <<"failed to create location", put.err>>, id |-> "",
              table |-> put.table, requests |-> 1]
        ELSE [err |-> <<>>, id |-> locationID, table |-> put.table, requests |-> 1]

\* Get by the identifier alone, whatever the account of the record.
Get_ByID(t, accountID, locationID, storeOk) ==
    LET item == IF storeOk THEN {it \in t : it.PK = locationID} ELSE {}
        conv == toLocation(UnmarshalMap(CHOOSE it \in item : TRUE))
    IN  IF ~storeOk
        THEN [err |-> <<"failed to get location", StoreFailure>>, location |-> NoLocation,
              requests |-> 1]
        ELSE IF item = {}
        THEN [err |-> <<"location not found">>, location |-> NoLocation, requests |-> 1]
        ELSE [err |-> conv.err, location |-> conv.location, requests |-> 1]

\* Get that asks the store a second time after a store error.
Get_Retry(t, accountID, locationID, storeOk) ==
    LET got == GetItem(t, locationID, accountID, storeOk)
        conv == toLocation(UnmarshalMap(CHOOSE it \in got.item : TRUE))
    IN  IF got.err # ""
        THEN [err |-> <<"failed to get location", got.err>>, location |-> NoLocation,
              requests |-> 2]
        ELSE IF got.item = {}
        THEN [err |-> <<"location not found">>, location |-> NoLocation, requests |-> 1]
        ELSE [err |-> conv.err, location |-> conv.location, requests |-> 1]

Get(t, accountID, locationID, storeOk) ==
    LET got == GetItem(t, locationID, accountID, storeOk)
        conv == toLocation(UnmarshalMap(CHOOSE it \in got.item : TRUE))
    IN  IF got.err # ""
        THEN [err |-> <<"failed to get location", got.err>>, location |-> NoLocation,
              requests |-> 1]
        ELSE IF got.item = {}
        THEN [err |-> <<"location not found">>, location |-> NoLocation, requests |-> 1]
        ELSE [err |-> conv.err, location |-> conv.location, requests |-> 1]

\* Update without the call of Validate.
Update_NoValidate(t, location, locationID, omitEmptyMap, storeOk) ==
    LET conv == toLocationRecord(location, locationID)
        put == PutItem(t, MarshalMap(conv.record, omitEmptyMap), OwnedCondition,
                       AccountValue(location.accountId), storeOk)
    IN  IF conv.err # <<>>
        THEN [err |-> <<"failed to convert location to record">> \o conv.err,
              table |-> t, requests |-> 0]
        ELSE IF put.err = ConditionalCheckFailed
        THEN [err |-> <<"location not found or access denied">>,
              table |-> put.table, requests |-> 1]
        ELSE IF put.err # ""
        THEN [err |-> <<"failed to update location", put.err>>,
              table |-> put.table, requests |-> 1]
        ELSE [err |-> <<>>, table |-> put.table, requests |-> 1]

\* Update that puts the record without condition expression.
Update_Unconditional(t, location, locationID, omitEmptyMap, storeOk) ==
    LET verr == Validate(location)
        conv == toLocationRecord(location, locationID)
        put == PutItem(t, MarshalMap(conv.record, omitEmptyMap), <<>>, NoValues, storeOk)
    IN  IF verr # <<>>
        THEN [err |-> <<"validation failed">> \o verr, table |-> t, requests |-> 0]
        ELSE IF conv.err # <<>>
        THEN [err |-> <<"failed to convert location to record">> \o conv.err,
              table |-> t, requests |-> 0]
        ELSE IF put.err = ConditionalCheckFailed
        THEN [err |-> <<"location not found or access denied">>,
              table |-> put.table, requests |-> 1]
        ELSE IF put.err # ""
        THEN [err |-> <<"failed to update location", put.err>>,
              table |-> put.table, requests |-> 1]
        ELSE [err |-> <<>>, table |-> put.table, requests |-> 1]

\* Update that sets the attributes of the new record on the stored item and
\* keeps the attributes the new record does not have.
Update_Merge(t, location, locationID, omitEmptyMap, storeOk) ==
    LET verr == Validate(location)
        conv == toLocationRecord(location, locationID)
        new == MarshalMap(conv.record, omitEmptyMap)
        old == ItemAt(t, new.PK, new.SK)
        kept == IF old = {} THEN new
                ELSE LET o == CHOOSE it \in old : TRUE
                     IN  [n \in DOMAIN new \cup DOMAIN o |->
                            IF n \in DOMAIN new THEN new[n] ELSE o[n]]
        put == PutItem(t, kept, OwnedCondition, AccountValue(location.accountId), storeOk)
    IN  IF verr # <<>>
        THEN [err |-> <<"validation failed">> \o verr, table |-> t, requests |-> 0]
        ELSE IF conv.err # <<>>
        THEN [err |-> <<"failed to convert location to record">> \o conv.err,
              table |-> t, requests |-> 0]
        ELSE IF put.err = ConditionalCheckFailed
        THEN [err |-> <<"location not found or access denied">>,
              table |-> put.table, requests |-> 1]
        ELSE IF put.err # ""
        THEN [err |-> <<"failed to update location", put.err>>,
              table |-> put.table, requests |-> 1]
        ELSE [err |-> <<>>, table |-> put.table, requests |-> 1]

Update(t, location, locationID, omitEmptyMap, storeOk) ==
    LET verr == Validate(location)
        conv == toLocationRecord(location, locationID)
        put == PutItem(t, MarshalMap(conv.record, omitEmptyMap), OwnedCondition,
                       AccountValue(location.accountId), storeOk)
    IN  IF verr # <<>>
        THEN [err |-> <<"validation failed">> \o verr, table |-> t, requests |-> 0]
        ELSE IF conv.err # <<>>
        THEN [err |-> <<"failed to convert location to record">> \o conv.err,
              table |-> t, requests |-> 0]
        ELSE IF put.err = ConditionalCheckFailed
        THEN [err |-> <<"location not found or access denied">>,
              table |-> put.table, requests |-> 1]
        ELSE IF put.err # ""
        THEN [err |-> <<"failed to update location", put.err>>,
              table |-> put.table, requests |-> 1]
        ELSE [err |-> <<>>, table |-> put.table, requests |-> 1]

\* Delete with the key attributes exchanged.
Delete_KeySwapped(t, accountID, locationID, storeOk) ==
    LET del == DeleteItem(t, accountID, locationID, OwnedCondition,
                          AccountValue(accountID), storeOk)
    IN  IF del.err = ConditionalCheckFailed
        THEN [err |-> <<"location not found or access denied">>,
              table |-> del.table, requests |-> 1]
        ELSE IF del.err # ""
        THEN [err |-> <<"failed to delete location", del.err>>,
              table |-> del.table, requests |-> 1]
        ELSE [err |-> <<>>, table |-> del.table, requests |-> 1]

\* Delete without condition expression.
Delete_Unconditional(t, accountID, locationID, storeOk) ==
    LET del == DeleteItem(t, locationID, accountID, <<>>, NoValues, storeOk)
    IN  IF del.err = ConditionalCheckFailed
        THEN [err |-> <<"location not found or access denied">>,
              table |-> del.table, requests |-> 1]
        ELSE IF del.err # ""
        THEN [err |-> <<"failed to delete location", del.err>>,
              table |-> del.table, requests |-> 1]
        ELSE [err |-> <<>>, table |-> del.table, requests |-> 1]

\* Delete that tells a record of another account from no record.
Delete_LeaksExistence(t, accountID, locationID, storeOk) ==
    LET del == DeleteItem(t, locationID, accountID, OwnedCondition,
                          AccountValue(accountID), storeOk)
    IN  IF del.err = ConditionalCheckFailed
        THEN [err |-> IF \E it \in t : it.PK = locationID
                      THEN <<"access denied">> ELSE <<"location not found">>,
              table |-> del.table, requests |-> 1]
        ELSE IF del.err # ""
        THEN [err |-> <<"failed to delete location", del.err>>,
              table |-> del.table, requests |-> 1]
        ELSE [err |-> <<>>, table |-> del.table, requests |-> 1]

\* Delete that takes a failed condition for success.
Delete_Idempotent(t, accountID, locationID, storeOk) ==
    LET del == DeleteItem(t, locationID, accountID, OwnedCondition,
                          AccountValue(accountID), storeOk)
    IN  IF del.err # "" /\ del.err # ConditionalCheckFailed
        THEN [err |-> <<"failed to delete location", del.err>>,
              table |-> del.table, requests |-> 1]
        ELSE [err |-> <<>>, table |-> del.table, requests |-> 1]

Delete(t, accountID, locationID, storeOk) ==
    LET del == DeleteItem(t, locationID, accountID, OwnedCondition,
                          AccountValue(accountID), storeOk)
    IN  IF del.err = ConditionalCheckFailed
        THEN [err |-> <<"location not found or access denied">>,
              table |-> del.table, requests |-> 1]
        ELSE IF del.err # ""
        THEN [err |-> <<"failed to delete location", del.err>>,
              table |-> del.table, requests |-> 1]
        ELSE [err |-> <<>>, table |-> del.table, requests |-> 1]

NilInt32 == [null |-> TRUE, val |-> 0]
Int32(v) == [null |-> FALSE, val |-> v]

NilOptions == [null |-> TRUE, Limit |-> NilInt32, Cursor |-> NilString]
ListOptions(limit, cursor) == [null |-> FALSE, Limit |-> limit, Cursor |-> cursor]

\* The first failing conversion of the items, in order; <<>> when all convert.
RECURSIVE FirstError(_)
FirstError(items) ==
    IF items = <<>> THEN <<>>
    ELSE IF toLocation(UnmarshalMap(Head(items))).err # <<>>
    THEN toLocation(UnmarshalMap(Head(items))).err
    ELSE FirstError(Tail(items))

\* pks: the primary keys of the items the locations were made from (the
\* result itself holds the locations only).
List(t, order, accountID, options, lekAtEnd, storeOk) ==
    LET limit == IF ~options.null /\ ~options.Limit.null
                 THEN options.Limit.val ELSE defaultLimit
        dec == IF ~options.null /\ ~options.Cursor.null
               THEN decodeCursor(options.Cursor)
               ELSE [err |-> <<>>, cursor |-> NilCursor]
        startKey == cursorToLastEvaluatedKey(dec.cursor)
        result == Query(t, order, accountID, limit, startKey, lekAtEnd, storeOk)
        failed == [err |-> <<>>, locations |-> <<>>, pks |-> <<>>,
                   nextCursor |-> NilString, requests |-> 1]
    IN  IF dec.err # <<>>
        THEN [failed EXCEPT !.err = <<"failed to decode cursor">> \o dec.err,
                            !.requests = 0]
        ELSE IF result.err # ""
        THEN [failed EXCEPT !.err = <<"failed to list locations", result.err>>]
        ELSE IF FirstError(result.Items) # <<>>
        THEN [failed EXCEPT !.err = <<"failed to convert record to location">>
                                        \o FirstError(result.Items)]
        ELSE [err |-> <<>>,
              locations |-> [i \in DOMAIN result.Items |->
                                toLocation(UnmarshalMap(result.Items[i])).location],
              pks |-> [i \in DOMAIN result.Items |-> result.Items[i].PK],
              nextCursor |->
                 encodeCursor(lastEvaluatedKeyToCursor(result.LastEvaluatedKey)),
              requests |-> 1]

(***************************************************************************)
(* Inputs                                                                  *)
(***************************************************************************)
MainSt == Address("123 Main St", "", "Springfield", "", "12345", "US")
OakAve == Address("456 Oak Ave", "Suite 2", "Springfield", "IL", "12345", "US")
BadCountry == Address("123 Main St", "", "Springfield", "", "12345", "USA")
NewYork == Coordinates(40, -74, NilFloat, Float(5))

ValidLocations ==
    {AddressLocation("acc-1", LocationTypeAddress, NilMap, MainSt),
     AddressLocation("acc-1", LocationTypeAddress, EmptyMap, MainSt),
     AddressLocation("acc-1", LocationTypeAddress, AcmeMap, OakAve),
     AddressLocation("acc-2", LocationTypeAddress, AcmeMap, MainSt),
     CoordinatesLocation("acc-2", LocationTypeCoordinates, NilMap, NewYork)}

ShopLocations ==
    {ShopLocation("acc-1", LocationTypeShop, NilMap, Shop("Corner Shop", "contact-1", MainSt))}

InvalidLocations ==
    {AddressLocation("", LocationTypeAddress, NilMap, MainSt),
     AddressLocation("acc-1", LocationTypeAddress, NilMap, BadCountry),
     CoordinatesLocation("acc-2", LocationTypeCoordinates, NilMap,
                         Coordinates(91, 0, NilFloat, NilFloat))}

InputLocations == ValidLocations \cup ShopLocations \cup InvalidLocations

\* The locations the listing specification fills the table with.
SeedLocations ==
    {AddressLocation("acc-1", LocationTypeAddress, NilMap, MainSt),
     CoordinatesLocation("acc-2", LocationTypeCoordinates, NilMap, NewYork)}

\* The library's choice matters for a map that is not nil and has no entries.
EmptyMapChoices(location) ==
    IF location.extendedAttributes = EmptyMap THEN BOOLEAN ELSE {TRUE}

NotBase64 == <<"%%%">>

Limits == {NilInt32, Int32(1), Int32(2)}

\* The options a caller passes: none; each limit without cursor and with the
\* cursor the previous List of the chain returned; the empty string and a text
\* that is not base64 as cursor.
InputOptions ==
    {NilOptions}
        \cup {ListOptions(l, NilString) : l \in Limits}
        \cup (IF sess.state = "open"
              THEN {ListOptions(l, sess.cursor) : l \in Limits} ELSE {})
        \cup {ListOptions(NilInt32, StringPtr(<<>>)), ListOptions(NilInt32, StringPtr(NotBase64))}

(***************************************************************************)
(* State                                                                   *)
(***************************************************************************)
NoCall ==
    [op |-> "none", location |-> NoLocation, accountID |-> "", locationID |-> "",
     options |-> NilOptions, err |-> <<>>, id |-> "", result |-> NoLocation,
     locations |-> <<>>, pks |-> <<>>, nextCursor |-> NilString, requests |-> 0,
     pre |-> {}]

IdleSess == [state |-> "idle", accountID |-> "", cursor |-> NilString, seen |-> <<>>]

\* A write ends the chain of List calls.
AfterWrite(t) == IF t = table THEN sess ELSE IdleSess

Init ==
    /\ table = {}
    /\ indexOrder = UuidPool
    /\ last = NoCall
    /\ sess = IdleSess

InitList ==
    /\ table = {}
    /\ indexOrder \in Perms(LocationIds)
    /\ last = NoCall
    /\ sess = IdleSess

CallCreate(locations, storeOks, max) ==
    \E location \in locations, n \in 1..MaxUuids, storeOk \in storeOks :
      \E omitEmptyMap \in EmptyMapChoices(location) :
        LET r == Create(table, location, UuidPool[n], omitEmptyMap, storeOk)
        IN  /\ Cardinality(r.table) <= max
            /\ table' = r.table
            /\ last' = [NoCall EXCEPT !.op = "Create", !.location = location,
                                      !.err = r.err, !.id = r.id,
                                      !.requests = r.requests, !.pre = table]
            /\ sess' = AfterWrite(r.table)
            /\ UNCHANGED indexOrder

CallGet ==
    \E accountID \in Accounts, locationID \in LocationIds, storeOk \in BOOLEAN :
        LET r == Get(table, accountID, locationID, storeOk)
        IN  /\ last' = [NoCall EXCEPT !.op = "Get", !.accountID = accountID,
                                      !.locationID = locationID, !.err = r.err,
                                      !.result = r.location,
                                      !.requests = r.requests, !.pre = table]
            /\ UNCHANGED <<table, indexOrder, sess>>

CallUpdate ==
    \E location \in InputLocations, locationID \in LocationIds, storeOk \in BOOLEAN :
      \E omitEmptyMap \in EmptyMapChoices(location) :
        LET r == Update(table, location, locationID, omitEmptyMap, storeOk)
        IN  /\ table' = r.table
            /\ last' = [NoCall EXCEPT !.op = "Update", !.location = location,
                                      !.locationID = locationID, !.err = r.err,
                                      !.requests = r.requests, !.pre = table]
            /\ sess' = AfterWrite(r.table)
            /\ UNCHANGED indexOrder

CallDelete(storeOks) ==
    \E accountID \in Accounts, locationID \in LocationIds, storeOk \in storeOks :
        LET r == Delete(table, accountID, locationID, storeOk)
        IN  /\ table' = r.table
            /\ last' = [NoCall EXCEPT !.op = "Delete", !.accountID = accountID,
                                      !.locationID = locationID, !.err = r.err,
                                      !.requests = r.requests, !.pre = table]
            /\ sess' = AfterWrite(r.table)
            /\ UNCHANGED indexOrder

\* The chain of List calls: a call without cursor starts one, a call with the
\* cursor of the previous call continues it, any other call ends it.
Chain(accountID, options, r) ==
    LET fresh == options.null \/ options.Cursor.null \/ options.Cursor.val = <<>>
        next == sess.state = "open" /\ sess.accountID = accountID
                    /\ ~options.null /\ options.Cursor = sess.cursor
        seen == IF fresh THEN r.pks ELSE sess.seen \o r.pks
    IN  IF r.err # <<>> \/ ~(fresh \/ next) THEN IdleSess
        ELSE [state |-> IF r.nextCursor.null THEN "done" ELSE "open",
              accountID |-> accountID, cursor |-> r.nextCursor, seen |-> seen]

CallList ==
    \E accountID \in Accounts, options \in InputOptions,
       lekAtEnd \in BOOLEAN, storeOk \in BOOLEAN :
        LET r == List(table, indexOrder, accountID, options, lekAtEnd, storeOk)
        IN  /\ last' = [NoCall EXCEPT !.op = "List", !.accountID = accountID,
                                      !.options = options, !.err = r.err,
                                      !.locations = r.locations, !.pks = r.pks,
                                      !.nextCursor = r.nextCursor,
                                      !.requests = r.requests, !.pre = table]
            /\ sess' = Chain(accountID, options, r)
            /\ UNCHANGED <<table, indexOrder>>

\* Create, Get, Update and Delete on every input.
Next == CallCreate(InputLocations, BOOLEAN, MaxRecords) \/ CallGet \/ CallUpdate \/ CallDelete(BOOLEAN)

Spec == Init /\ [][Next]_vars

\* List, on tables that Create and Delete build, under every order of the index.
NextList == CallCreate(SeedLocations, {TRUE}, MaxListRecords) \/ CallDelete({TRUE}) \/ CallList

SpecList == InitList /\ [][NextList]_vars

(***************************************************************************)
(* encoding/json.  A JSON value is [kind, str, num, obj, text]: the field  *)
(* of its kind holds it; an object's obj is the function from its member   *)
(* names to their values; text holds a string that is a cursor, which is   *)
(* a sequence of tokens.  A byte slice (json.RawMessage, []byte) is the    *)
(* text of a value, text that is not JSON, or no text at all.  A Go        *)
(* interface{} that json fills is kept as the JSON value it was filled     *)
(* from.                                                                   *)
(***************************************************************************)
NoMembers == [n \in {} |-> 0]

JNull == [kind |-> "null", str |-> "", num |-> 0, obj |-> NoMembers, text |-> <<>>]
JString(s) == [JNull EXCEPT !.kind = "string", !.str = s]
JText(tokens) == [JNull EXCEPT !.kind = "string", !.text = tokens]
JNumber(n) == [JNull EXCEPT !.kind = "number", !.num = n]
JObject(f) == [JNull EXCEPT !.kind = "object", !.obj = f]

Raw(v) == [text |-> "json", val |-> v]
NilRaw == [text |-> "", val |-> JNull]
BadRaw == [text |-> "{", val |-> JNull]

SyntaxError == "json: syntax error"
TypeError == "json: cannot unmarshal"

\* checkValid: the text must be one JSON value.
JSONSyntax(data) == IF data.text = "json" THEN "" ELSE SyntaxError

\* A member of an object; a member that is missing leaves the field as null does.
Member(v, k) == IF v.kind = "object" /\ k \in DOMAIN v.obj THEN v.obj[k] ELSE JNull

\* A json.RawMessage field: the text of the member, none when it is missing.
RawMember(v, k) == IF v.kind = "object" /\ k \in DOMAIN v.obj THEN Raw(v.obj[k]) ELSE NilRaw

\* What a field of each Go type accepts, and the value it then holds.
StructOk(v) == v.kind \in {"object", "null"}
StringOk(v) == v.kind \in {"string", "null"}
NumberOk(v) == v.kind \in {"number", "null"}
StringVal(v) == IF v.kind = "string" THEN v.str ELSE ""
StringPtrVal(v) == IF v.kind = "string" THEN StringPtr(v.text) ELSE NilString
Float64Val(v) == IF v.kind = "number" THEN v.num ELSE 0
Float64Ptr(v) == IF v.kind = "number" THEN Float(v.num) ELSE NilFloat
Int32Ptr(v) == IF v.kind = "number" THEN Int32(v.num) ELSE NilInt32

\* map[string]interface{}: entries are (name, value) pairs; a string
\* becomes the Go string.
MapVal(v) ==
    IF v.kind # "object" THEN NilMap
    ELSE [null |-> FALSE,
          entries |-> {<<k, IF v.obj[k].kind = "string"
                            THEN v.obj[k].str ELSE v.obj[k]>> : k \in DOMAIN v.obj}]

AddressOk(v) ==
    StructOk(v) /\ \A n \in DOMAIN ZeroAddress : StringOk(Member(v, n))

AddressVal(v) == [n \in DOMAIN ZeroAddress |-> StringVal(Member(v, n))]

CoordinatesOk(v) ==
    StructOk(v) /\ \A n \in DOMAIN ZeroCoordinates : NumberOk(Member(v, n))

CoordinatesVal(v) ==
    Coordinates(Float64Val(Member(v, "latitude")), Float64Val(Member(v, "longitude")),
                Float64Ptr(Member(v, "altitude")), Float64Ptr(Member(v, "accuracy")))

ShopOk(v) ==
    /\ StructOk(v)
    /\ StringOk(Member(v, "name"))
    /\ StringOk(Member(v, "contactId"))
    /\ AddressOk(Member(v, "address"))

ShopVal(v) ==
    Shop(StringVal(Member(v, "name")), StringVal(Member(v, "contactId")),
         AddressVal(Member(v, "address")))

\* The members of the embedded LocationBase.
LocationBaseOk(v) ==
    /\ StringOk(Member(v, "accountId"))
    /\ StringOk(Member(v, "locationType"))
    /\ StructOk(Member(v, "extendedAttributes"))

\* UnmarshalLocation that decodes an address location whenever the payload
\* has an address member, whatever the discriminator says.
UnmarshalLocation_ByShape(data) ==
    LET v == data.val
        tag == StringVal(Member(v, "locationType"))
        fail(msg, cause) == [err |-> <<msg, cause>>, location |-> NoLocation]
    IN  IF JSONSyntax(data) # ""
        THEN fail("failed to unmarshal location type", JSONSyntax(data))
        ELSE IF ~(StructOk(v) /\ StringOk(Member(v, "locationType")))
        THEN fail("failed to unmarshal location type", TypeError)
        ELSE IF v.kind = "object" /\ "address" \in DOMAIN v.obj
        THEN IF LocationBaseOk(v) /\ AddressOk(Member(v, "address"))
             THEN [err |-> <<>>,
                   location |-> AddressLocation(StringVal(Member(v, "accountId")), tag,
                                                MapVal(Member(v, "extendedAttributes")),
                                                AddressVal(Member(v, "address")))]
             ELSE fail("failed to unmarshal address location", TypeError)
        ELSE fail("unknown location type", tag)

\* models.UnmarshalLocation: decode the discriminator, then the variant.
UnmarshalLocation(data) ==
    LET v == data.val
        tag == StringVal(Member(v, "locationType"))
        acct == StringVal(Member(v, "accountId"))
        ext == MapVal(Member(v, "extendedAttributes"))
        fail(msg, cause) == [err |-> <<msg, cause>>, location |-> NoLocation]
    IN  IF JSONSyntax(data) # ""
        THEN fail("failed to unmarshal location type", JSONSyntax(data))
        ELSE IF ~(StructOk(v) /\ StringOk(Member(v, "locationType")))
        THEN fail("failed to unmarshal location type", TypeError)
        ELSE CASE tag = LocationTypeAddress ->
                    IF LocationBaseOk(v) /\ AddressOk(Member(v, "address"))
                    THEN [err |-> <<>>,
                          location |-> AddressLocation(acct, tag, ext,
                                                       AddressVal(Member(v, "address")))]
                    ELSE fail("failed to unmarshal address location", TypeError)
               [] tag = LocationTypeCoordinates ->
                    IF LocationBaseOk(v) /\ CoordinatesOk(Member(v, "coordinates"))
                    THEN [err |-> <<>>,
                          location |-> CoordinatesLocation(acct, tag, ext,
                                          CoordinatesVal(Member(v, "coordinates")))]
                    ELSE fail("failed to unmarshal coordinates location", TypeError)
               [] tag = LocationTypeShop ->
                    IF LocationBaseOk(v) /\ ShopOk(Member(v, "shop"))
                    THEN [err |-> <<>>,
                          location |-> ShopLocation(acct, tag, ext,
                                                    ShopVal(Member(v, "shop")))]
                    ELSE fail("failed to unmarshal shop location", TypeError)
               [] OTHER -> fail("unknown location type", tag)

\* json.Marshal with the json tags: omitempty leaves out an empty string, a
\* nil pointer and a map without entries.
AddressJSON(a) ==
    JObject([n \in {"streetAddress", "city", "postalCode", "country"}
                   \cup (IF a.streetAddress2 = "" THEN {} ELSE {"streetAddress2"})
                   \cup (IF a.stateProvince = "" THEN {} ELSE {"stateProvince"}) |->
                JString(a[n])])

CoordinatesJSON(c) ==
    JObject([n \in {"latitude", "longitude"}
                   \cup (IF c.altitude.null THEN {} ELSE {"altitude"})
                   \cup (IF c.accuracy.null THEN {} ELSE {"accuracy"}) |->
                IF n \in {"altitude", "accuracy"} THEN JNumber(c[n].val) ELSE JNumber(c[n])])

ShopJSON(s) ==
    JObject([name |-> JString(s.name), contactId |-> JString(s.contactId),
             address |-> AddressJSON(s.address)])

\* The entries of the models hold strings.
MapJSON(m) ==
    JObject([k \in {e[1] : e \in m.entries} |->
                JString((CHOOSE e \in m.entries : e[1] = k)[2])])

\* The json and dynamodbav name of the shape block of a variant.
ShapeName(l) ==
    CASE l.variant = "AddressLocation" -> "address"
      [] l.variant = "CoordinatesLocation" -> "coordinates"
      [] l.variant = "ShopLocation" -> "shop"

LocationJSON(l) ==
    JObject([n \in {"accountId", "locationType"}
                   \cup (IF l.extendedAttributes.entries = {} THEN {}
                         ELSE {"extendedAttributes"})
                   \cup {ShapeName(l)} |->
                CASE n = "accountId" -> JString(l.accountId)
                  [] n = "locationType" -> JString(l.locationType)
                  [] n = "extendedAttributes" -> MapJSON(l.extendedAttributes)
                  [] n = "address" -> AddressJSON(l.address)
                  [] n = "coordinates" -> CoordinatesJSON(l.coordinates)
                  [] n = "shop" -> ShopJSON(l.shop)])

(***************************************************************************)
(* handler: AppSyncHandler.  The interface{} that Handle returns is        *)
(* [type, null, val]: the untyped nil, a string, a bool, a                 *)
(* map[string]interface{} or a *ListLocationsResponse (null: a nil map or  *)
(* pointer).  env holds what the call does not decide: the identifier      *)
(* uuid.New() returns, the library's treatment of an empty map, whether    *)
(* the store answers, and whether it reports a last key at the end.        *)
(***************************************************************************)
NilInterface ==
    [type |-> "nil", null |-> TRUE, str |-> "", bool |-> FALSE, map |-> NoMembers,
     Locations |-> <<>>, NextCursor |-> NilString]
StringResult(str) == [NilInterface EXCEPT !.type = "string", !.null = FALSE, !.str = str]
BoolResult(b) == [NilInterface EXCEPT !.type = "bool", !.null = FALSE, !.bool = b]
MapResult(m) == [NilInterface EXCEPT !.type = "map", !.null = FALSE, !.map = m]
NilMapResult == [NilInterface EXCEPT !.type = "map"]
ListLocationsResponse(locations, nextCursor) ==
    [NilInterface EXCEPT !.type = "*ListLocationsResponse", !.null = FALSE,
                         !.Locations = locations, !.NextCursor = nextCursor]
NilListLocationsResponse == [NilInterface EXCEPT !.type = "*ListLocationsResponse"]

AppSyncEvent(field, arguments) == [Field |-> field, Arguments |-> arguments]

\* The repository call a handler made, for the record.
NoRepoCall ==
    [op |-> "none", err |-> <<>>, id |-> "", location |-> NoLocation, accountID |-> "",
     locationID |-> "", options |-> NilOptions, locations |-> <<>>, pks |-> <<>>,
     nextCursor |-> NilString, calls |-> 0, requests |-> 0]

\* json.Unmarshal(arguments, &args) into a struct of string, pointer and
\* RawMessage fields.
ArgumentsError(arguments, strings, numbers) ==
    IF JSONSyntax(arguments) # ""
    THEN <<"failed to unmarshal arguments", JSONSyntax(arguments)>>
    ELSE IF ~(/\ StructOk(arguments.val)
              /\ \A n \in strings : StringOk(Member(arguments.val, n))
              /\ \A n \in numbers : NumberOk(Member(arguments.val, n)))
    THEN <<"failed to unmarshal arguments", TypeError>>
    ELSE <<>>

\* handleCreateLocation that answers with a response object around the
\* identifier, as the first version of the handler did.
handleCreateLocation_Response(t, arguments, env) ==
    LET aerr == ArgumentsError(arguments, {}, {})
        dec == UnmarshalLocation(RawMember(arguments.val, "input"))
        r == Create(t, dec.location, env.locationID, env.omitEmptyMap, env.storeOk)
        response(id) == [StringResult(id) EXCEPT !.type = "*LocationResponse"]
        failed(err) == [result |-> [response("") EXCEPT !.null = TRUE], err |-> err,
                        table |-> t, repo |-> NoRepoCall]
    IN  IF aerr # <<>> THEN failed(aerr)
        ELSE IF dec.err # <<>> THEN failed(<<"failed to unmarshal location">> \o dec.err)
        ELSE [result |-> IF r.err # <<>> THEN [response("") EXCEPT !.null = TRUE]
                         ELSE response(r.id),
              err |-> IF r.err # <<>> THEN <<"failed to create location">> \o r.err
                      ELSE <<>>,
              table |-> r.table,
              repo |-> [NoRepoCall EXCEPT !.op = "Create", !.err = r.err, !.calls = 1, !.requests = r.requests, !.id = r.id,
                                          !.location = dec.location]]

handleCreateLocation(t, arguments, env) ==
    LET aerr == ArgumentsError(arguments, {}, {})
        dec == UnmarshalLocation(RawMember(arguments.val, "input"))
        r == Create(t, dec.location, env.locationID, env.omitEmptyMap, env.storeOk)
        failed(err) == [result |-> StringResult(""), err |-> err, table |-> t,
                        repo |-> NoRepoCall]
    IN  IF aerr # <<>> THEN failed(aerr)
        ELSE IF dec.err # <<>> THEN failed(<<"failed to unmarshal location">> \o dec.err)
        ELSE [result |-> StringResult(IF r.err # <<>> THEN "" ELSE r.id),
              err |-> IF r.err # <<>> THEN <<"failed to create location">> \o r.err
                      ELSE <<>>,
              table |-> r.table,
              repo |-> [NoRepoCall EXCEPT !.op = "Create", !.err = r.err, !.calls = 1, !.requests = r.requests, !.id = r.id,
                                          !.location = dec.location]]

\* The __typename of a locationType tag; none for any other tag.
TypeNames ==
    [n \in {LocationTypeAddress, LocationTypeCoordinates, LocationTypeShop} |->
        CASE n = LocationTypeAddress -> "AddressLocation"
          [] n = LocationTypeCoordinates -> "CoordinatesLocation"
          [] n = LocationTypeShop -> "ShopLocation"]

\* LocationMap without the two added keys.
LocationMap_Bare(location, locationID) == Raw(LocationJSON(location)).val.obj

\* json.Marshal(location), json.Unmarshal into a map, then the two added keys.
LocationMap(location, locationID) ==
    LET locationBytes == Raw(LocationJSON(location))
        result == locationBytes.val.obj
    IN  [n \in DOMAIN result \cup {"locationId"}
               \cup (IF location.locationType \in DOMAIN TypeNames
                     THEN {"__typename"} ELSE {}) |->
            CASE n = "locationId" -> JString(locationID)
              [] n = "__typename" -> JString(TypeNames[location.locationType])
              [] OTHER -> result[n]]

handleGetLocation(t, arguments, env) ==
    LET aerr == ArgumentsError(arguments, {"accountId", "locationId"}, {})
        AccountID == StringVal(Member(arguments.val, "accountId"))
        LocationID == StringVal(Member(arguments.val, "locationId"))
        r == Get(t, AccountID, LocationID, env.storeOk)
        repo == [NoRepoCall EXCEPT !.op = "Get", !.err = r.err, !.calls = 1, !.requests = r.requests, !.location = r.location,
                                   !.accountID = AccountID, !.locationID = LocationID]
    IN  IF aerr # <<>>
        THEN [result |-> NilMapResult, err |-> aerr, table |-> t, repo |-> NoRepoCall]
        ELSE IF r.err # <<>>
        THEN [result |-> NilMapResult, err |-> <<"failed to get location">> \o r.err,
              table |-> t, repo |-> repo]
        ELSE [result |-> MapResult(LocationMap(r.location, LocationID)), err |-> <<>>,
              table |-> t, repo |-> repo]

handleUpdateLocation(t, arguments, env) ==
    LET aerr == ArgumentsError(arguments, {"locationId"}, {})
        LocationID == StringVal(Member(arguments.val, "locationId"))
        dec == UnmarshalLocation(RawMember(arguments.val, "input"))
        r == Update(t, dec.location, LocationID, env.omitEmptyMap, env.storeOk)
        failed(err) == [result |-> BoolResult(FALSE), err |-> err, table |-> t,
                        repo |-> NoRepoCall]
    IN  IF aerr # <<>> THEN failed(aerr)
        ELSE IF dec.err # <<>> THEN failed(<<"failed to unmarshal location">> \o dec.err)
        ELSE [result |-> BoolResult(r.err = <<>>),
              err |-> IF r.err # <<>> THEN <<"failed to update location">> \o r.err
                      ELSE <<>>,
              table |-> r.table,
              repo |-> [NoRepoCall EXCEPT !.op = "Update", !.err = r.err, !.calls = 1, !.requests = r.requests,
                                          !.location = dec.location,
                                          !.locationID = LocationID]]

\* handleDeleteLocation that reports a failed Delete in the result only, as
\* the first version of the handler did.
handleDeleteLocation_Swallowed(t, arguments, env) ==
    LET aerr == ArgumentsError(arguments, {"accountId", "locationId"}, {})
        AccountID == StringVal(Member(arguments.val, "accountId"))
        LocationID == StringVal(Member(arguments.val, "locationId"))
        r == Delete(t, AccountID, LocationID, env.storeOk)
    IN  IF aerr # <<>>
        THEN [result |-> BoolResult(FALSE), err |-> aerr, table |-> t,
              repo |-> NoRepoCall]
        ELSE [result |-> BoolResult(r.err = <<>>),
              err |-> <<>>,
              table |-> r.table,
              repo |-> [NoRepoCall EXCEPT !.op = "Delete", !.err = r.err,
                                          !.calls = 1, !.requests = r.requests,
                                          !.accountID = AccountID,
                                          !.locationID = LocationID]]

\* handleDeleteLocation that goes on with the zero arguments when the
\* arguments do not decode.
handleDeleteLocation_ArgsIgnored(t, arguments, env) ==
    LET AccountID == StringVal(Member(arguments.val, "accountId"))
        LocationID == StringVal(Member(arguments.val, "locationId"))
        r == Delete(t, AccountID, LocationID, env.storeOk)
    IN  [result |-> BoolResult(r.err = <<>>),
         err |-> IF r.err # <<>> THEN <<"failed to delete location">> \o r.err
                 ELSE <<>>,
         table |-> r.table,
         repo |-> [NoRepoCall EXCEPT !.op = "Delete", !.err = r.err,
                                     !.calls = 1, !.requests = r.requests,
                                     !.accountID = AccountID,
                                     !.locationID = LocationID]]

handleDeleteLocation(t, arguments, env) ==
    LET aerr == ArgumentsError(arguments, {"accountId", "locationId"}, {})
        AccountID == StringVal(Member(arguments.val, "accountId"))
        LocationID == StringVal(Member(arguments.val, "locationId"))
        r == Delete(t, AccountID, LocationID, env.storeOk)
    IN  IF aerr # <<>>
        THEN [result |-> BoolResult(FALSE), err |-> aerr, table |-> t,
              repo |-> NoRepoCall]
        ELSE [result |-> BoolResult(r.err = <<>>),
              err |-> IF r.err # <<>> THEN <<"failed to delete location">> \o r.err
                      ELSE <<>>,
              table |-> r.table,
              repo |-> [NoRepoCall EXCEPT !.op = "Delete", !.err = r.err,
                                          !.calls = 1, !.requests = r.requests,
                                          !.accountID = AccountID,
                                          !.locationID = LocationID]]

\* result.LocationIDs as the handler reads it and as the handler's tests
\* build it. The ListResult of repository.go declares Locations and NextCursor
\* only, and its List sets those two: the field and the code that fills it are
\* not in the source at hand, so the list is taken from the specification,
\* the identifiers of the stored records the locations were made from, in
\* the locations' order.
LocationIDs(result) == result.pks

\* handleListLocations of the first version of the handler: the locations as
\* the repository returned them, nothing injected.
handleListLocations_Bare(t, order, arguments, env) ==
    LET aerr == ArgumentsError(arguments, {"accountId", "cursor"}, {"limit"})
        AccountID == StringVal(Member(arguments.val, "accountId"))
        options == ListOptions(Int32Ptr(Member(arguments.val, "limit")),
                               StringPtrVal(Member(arguments.val, "cursor")))
        result == List(t, order, AccountID, options, env.lekAtEnd, env.storeOk)
        repo == [NoRepoCall EXCEPT !.op = "List", !.err = result.err, !.calls = 1, !.requests = result.requests,
                                   !.accountID = AccountID, !.options = options,
                                   !.locations = result.locations, !.pks = result.pks,
                                   !.nextCursor = result.nextCursor]
        locationMaps == [i \in DOMAIN result.locations |->
                            Raw(LocationJSON(result.locations[i])).val.obj]
    IN  IF aerr # <<>>
        THEN [result |-> NilListLocationsResponse, err |-> aerr, table |-> t,
              repo |-> NoRepoCall]
        ELSE IF result.err # <<>>
        THEN [result |-> NilListLocationsResponse,
              err |-> <<"failed to list locations">> \o result.err,
              table |-> t, repo |-> repo]
        ELSE IF \E i \in DOMAIN result.locations : i \notin DOMAIN LocationIDs(result)
        THEN [result |-> NilInterface, err |-> <<"panic: runtime error: index out of range">>, table |-> t,
              repo |-> repo]
        ELSE [result |-> ListLocationsResponse(locationMaps, result.nextCursor),
              err |-> <<>>, table |-> t, repo |-> repo]

handleListLocations(t, order, arguments, env) ==
    LET aerr == ArgumentsError(arguments, {"accountId", "cursor"}, {"limit"})
        AccountID == StringVal(Member(arguments.val, "accountId"))
        options == ListOptions(Int32Ptr(Member(arguments.val, "limit")),
                               StringPtrVal(Member(arguments.val, "cursor")))
        result == List(t, order, AccountID, options, env.lekAtEnd, env.storeOk)
        repo == [NoRepoCall EXCEPT !.op = "List", !.err = result.err, !.calls = 1, !.requests = result.requests,
                                   !.accountID = AccountID, !.options = options,
                                   !.locations = result.locations, !.pks = result.pks,
                                   !.nextCursor = result.nextCursor]
        locationMaps == [i \in DOMAIN result.locations |->
                            LocationMap(result.locations[i], LocationIDs(result)[i])]
    IN  IF aerr # <<>>
        THEN [result |-> NilListLocationsResponse, err |-> aerr, table |-> t,
              repo |-> NoRepoCall]
        ELSE IF result.err # <<>>
        THEN [result |-> NilListLocationsResponse,
              err |-> <<"failed to list locations">> \o result.err,
              table |-> t, repo |-> repo]
        ELSE IF \E i \in DOMAIN result.locations : i \notin DOMAIN LocationIDs(result)
        THEN [result |-> NilInterface, err |-> <<"panic: runtime error: index out of range">>, table |-> t,
              repo |-> repo]
        ELSE [result |-> ListLocationsResponse(locationMaps, result.nextCursor),
              err |-> <<>>, table |-> t, repo |-> repo]

CreateFields ==
    {"createLocation", "createAddressLocation", "createCoordinatesLocation",
     "createShopLocation"}

UpdateFields ==
    {"updateLocation", "updateAddressLocation", "updateCoordinatesLocation",
     "updateShopLocation"}

\* Handle with the field names of the first version of the handler only.
Handle_NoAliases(t, order, event, env) ==
    CASE event.Field = "createLocation" -> handleCreateLocation(t, event.Arguments, env)
      [] event.Field = "getLocation" -> handleGetLocation(t, event.Arguments, env)
      [] event.Field = "updateLocation" -> handleUpdateLocation(t, event.Arguments, env)
      [] event.Field = "deleteLocation" -> handleDeleteLocation(t, event.Arguments, env)
      [] event.Field = "listLocations" ->
           handleListLocations(t, order, event.Arguments, env)
      [] OTHER -> [result |-> NilInterface, err |-> <<"unknown field: " \o event.Field>>,
                   table |-> t, repo |-> NoRepoCall]

\* Handle whose default case answers with an empty result and no error.
Handle_UnknownIgnored(t, order, event, env) ==
    CASE event.Field \in CreateFields -> handleCreateLocation(t, event.Arguments, env)
      [] event.Field = "getLocation" -> handleGetLocation(t, event.Arguments, env)
      [] event.Field \in UpdateFields -> handleUpdateLocation(t, event.Arguments, env)
      [] event.Field = "deleteLocation" -> handleDeleteLocation(t, event.Arguments, env)
      [] event.Field = "listLocations" ->
           handleListLocations(t, order, event.Arguments, env)
      [] OTHER -> [result |-> NilInterface, err |-> <<>>, table |-> t,
                   repo |-> NoRepoCall]

Handle(t, order, event, env) ==
    CASE event.Field \in CreateFields -> handleCreateLocation(t, event.Arguments, env)
      [] event.Field = "getLocation" -> handleGetLocation(t, event.Arguments, env)
      [] event.Field \in UpdateFields -> handleUpdateLocation(t, event.Arguments, env)
      [] event.Field = "deleteLocation" -> handleDeleteLocation(t, event.Arguments, env)
      [] event.Field = "listLocations" ->
           handleListLocations(t, order, event.Arguments, env)
      [] OTHER -> [result |-> NilInterface, err |-> <<"unknown field: " \o event.Field>>,
                   table |-> t, repo |-> NoRepoCall]

(***************************************************************************)
(* Events                                                                  *)
(***************************************************************************)
CornerShop == Shop("Corner Shop", "contact-1", MainSt)

\* Inputs that carry the locationType member, as the handler tests send them.
TaggedInputs ==
    {LocationJSON(AddressLocation("acc-1", LocationTypeAddress, NilMap, MainSt)),
     LocationJSON(AddressLocation("acc-2", LocationTypeAddress, AcmeMap, OakAve)),
     LocationJSON(CoordinatesLocation("acc-2", LocationTypeCoordinates, NilMap, NewYork)),
     LocationJSON(ShopLocation("acc-1", LocationTypeShop, NilMap, CornerShop)),
     LocationJSON(AddressLocation("acc-1", LocationTypeAddress, NilMap, BadCountry))}

\* The inputs of createAddressLocation and createCoordinatesLocation in the
\* shape of the integration guide: accountId, the shape and extendedAttributes.
GuideAddressInput ==
    JObject([accountId |-> JString("acc-1"), address |-> AddressJSON(MainSt),
             extendedAttributes |-> JObject(NoMembers)])

GuideCoordinatesInput ==
    JObject([accountId |-> JString("acc-2"), coordinates |-> CoordinatesJSON(NewYork),
             extendedAttributes |-> JObject(NoMembers)])

\* Inputs that do not decode: no known member, and an accountId of the wrong type.
UndecodableInputs ==
    {JObject([invalid |-> JString("data")]),
     JObject([accountId |-> JNumber(5), locationType |-> JString(LocationTypeAddress),
              address |-> AddressJSON(MainSt)])}

Inputs == TaggedInputs \cup {GuideAddressInput, GuideCoordinatesInput} \cup UndecodableInputs

CreateArguments ==
    {Raw(JObject([input |-> x])) : x \in Inputs \cup {JNull}}
        \cup {Raw(JObject(NoMembers)), BadRaw}

UpdateArguments ==
    {Raw(JObject([locationId |-> JString(id), input |-> x])) :
        id \in LocationIds, x \in Inputs}
        \cup {BadRaw}

KeyArguments ==
    {Raw(JObject([accountId |-> JString(a), locationId |-> JString(id)])) :
        a \in Accounts, id \in LocationIds}
        \cup {Raw(JObject([invalid |-> JString("arguments")])), BadRaw}

\* accountId alone, with limit 1, and with the cursor the last listing
\* returned: limit and cursor as members of the arguments, the shape of
\* ListLocationsArguments, and as members of an options object, the shape of
\* the listLocations field of the schema and of the integration guide.
ListArguments ==
    {Raw(JObject([accountId |-> JString(a)])) : a \in Accounts}
        \cup {Raw(JObject([accountId |-> JString(a), limit |-> JNumber(1)])) :
                a \in Accounts}
        \cup {Raw(JObject([accountId |-> JString(a),
                           options |-> JObject([limit |-> JNumber(1)])])) :
                a \in Accounts}
        \cup (IF last.op = "Handle" /\ ~last.repo.nextCursor.null
              THEN {Raw(JObject([accountId |-> JString(last.repo.accountID),
                                 limit |-> JNumber(1),
                                 cursor |-> JText(last.repo.nextCursor.val)])),
                    Raw(JObject([accountId |-> JString(last.repo.accountID),
                                 options |->
                                    JObject([limit |-> JNumber(1),
                                             cursor |-> JText(last.repo.nextCursor.val)])]))}
              ELSE {})
        \cup {Raw(JObject([accountId |-> JNumber(5)]))}

UnknownFields == {"unknownOperation", "getLocations", ""}

\* What the library may do with the extended attributes of the input.
InputEmptyMapChoices(arguments) ==
    LET dec == UnmarshalLocation(RawMember(arguments.val, "input"))
    IN  IF dec.err = <<>> THEN EmptyMapChoices(dec.location) ELSE {TRUE}

NoEvent ==
    [op |-> "none", event |-> AppSyncEvent("", NilRaw), result |-> NilInterface,
     err |-> <<>>, repo |-> NoRepoCall, pre |-> {}]

InitHandle ==
    /\ table = {}
    /\ indexOrder = UuidPool
    /\ last = NoEvent
    /\ sess = IdleSess

\* One invocation: Handle on an event, with what the environment decides.
Invoke(fields, argumentss, uuids, storeOks, lekAtEnds) ==
    \E field \in fields, arguments \in argumentss, n \in uuids,
       storeOk \in storeOks, lekAtEnd \in lekAtEnds :
      \E omitEmptyMap \in InputEmptyMapChoices(arguments) :
        \E event \in {AppSyncEvent(field, arguments)} :
          \E r \in {Handle(table, indexOrder, event,
                           [locationID |-> UuidPool[n], omitEmptyMap |-> omitEmptyMap,
                            storeOk |-> storeOk, lekAtEnd |-> lekAtEnd])} :
            /\ Cardinality(r.table) <= MaxRecords
            /\ table' = r.table
            /\ last' = [op |-> "Handle", event |-> event, result |-> r.result,
                        err |-> r.err, repo |-> r.repo, pre |-> table]
            /\ UNCHANGED <<indexOrder, sess>>

\* uuid.New() returns the first or the last identifier of the pool.  The
\* store fails under the operations with one name; the repository fails
\* under the aliased ones by its own errors.
InvokeCreate ==
    Invoke(CreateFields, CreateArguments, {1, MaxUuids}, {TRUE}, {FALSE})
InvokeGet == Invoke({"getLocation"}, KeyArguments, {1}, BOOLEAN, {FALSE})
InvokeUpdate ==
    Invoke(UpdateFields, UpdateArguments, {1}, {TRUE}, {FALSE})
InvokeDelete == Invoke({"deleteLocation"}, KeyArguments, {1}, BOOLEAN, {FALSE})
InvokeList == Invoke({"listLocations"}, ListArguments, {1}, BOOLEAN, BOOLEAN)
InvokeUnknown ==
    Invoke(UnknownFields, {Raw(JObject(NoMembers))}, {1}, {TRUE}, {FALSE})

NextHandle ==
    InvokeCreate \/ InvokeGet \/ InvokeUpdate \/ InvokeDelete \/ InvokeList
        \/ InvokeUnknown

\* The handler over the repository, on every event.
SpecHandle == InitHandle /\ [][NextHandle]_vars

(***************************************************************************)
(* models on their own: UnmarshalLocation on payloads and Validate on      *)
(* location values, as the tests of the package call them.                 *)
(***************************************************************************)
\* The shop object of TestUnmarshalLocation: the address fields beside name
\* and contactId.
FlatShopJSON ==
    JObject([name |-> JString("Coffee Shop"), contactId |-> JString("contact-1"),
             streetAddress |-> JString("123 Main St"),
             streetAddress2 |-> JString("Suite 100"), city |-> JString("Springfield"),
             stateProvince |-> JString("IL"), postalCode |-> JString("12345"),
             country |-> JString("US")])

\* Payloads: every choice of discriminator, account and shape members, and
\* texts that are not an object or not JSON.
Payloads ==
    LET Absent == [present |-> FALSE, val |-> JNull]
        Present(v) == [present |-> TRUE, val |-> v]
        tags == {Absent}
                  \cup {Present(JString(t)) :
                          t \in {LocationTypeAddress, LocationTypeCoordinates,
                                 LocationTypeShop, "unknown", ""}}
                  \cup {Present(JNull), Present(JNumber(5))}
        accounts == {Absent, Present(JString("acc-1")), Present(JString("")),
                     Present(JNumber(5))}
        Shapes(names, address, shop) ==
            [names |-> names, address |-> address, shop |-> shop]
        shapes == {Shapes({}, JNull, JNull),
                   Shapes({"address"}, AddressJSON(MainSt), JNull),
                   Shapes({"address"}, AddressJSON(OakAve), JNull),
                   Shapes({"address"}, JString("123 Main St"), JNull),
                   Shapes({"coordinates"}, JNull, JNull),
                   Shapes({"shop"}, JNull, ShopJSON(CornerShop)),
                   Shapes({"shop"}, JNull, FlatShopJSON),
                   Shapes({"address", "coordinates", "shop"}, AddressJSON(MainSt),
                          ShopJSON(CornerShop))}
    IN  {Raw(JObject([n \in (IF t.present THEN {"locationType"} ELSE {})
                            \cup (IF a.present THEN {"accountId"} ELSE {})
                            \cup b.names |->
                         CASE n = "locationType" -> t.val
                           [] n = "accountId" -> a.val
                           [] n = "address" -> b.address
                           [] n = "coordinates" -> CoordinatesJSON(NewYork)
                           [] n = "shop" -> b.shop])) :
            t \in tags, a \in accounts, b \in shapes}
            \cup {BadRaw, Raw(JNull), Raw(JString("address"))}

\* Location values as the validation tests build them: each required field
\* empty in turn, the bounds of the coordinates and the values beside them,
\* and any tag on any variant.
LocationValues ==
    LET tags == {LocationTypeAddress, LocationTypeCoordinates, LocationTypeShop, ""}
        accts == {"", "acc-1"}
        addresses == {MainSt, OakAve, BadCountry,
                      [MainSt EXCEPT !.streetAddress = ""], [MainSt EXCEPT !.city = ""],
                      [MainSt EXCEPT !.postalCode = ""], [MainSt EXCEPT !.country = ""],
                      [MainSt EXCEPT !.country = "U"]}
        coordinates == {Coordinates(lat, lon, NilFloat, acc) :
                          lat \in {-91, -90, 40, 90, 91},
                          lon \in {-181, -180, -74, 180, 181},
                          acc \in {NilFloat, Float(0), Float(-1), Float(5)}}
        shops == {Shop(n, c, a) : n \in {"", "Corner Shop"}, c \in {"", "contact-1"},
                                  a \in addresses}
    IN  {AddressLocation(a, t, NilMap, x) : a \in accts, t \in tags, x \in addresses}
        \cup {CoordinatesLocation(a, t, NilMap, x) :
                a \in accts, t \in tags, x \in coordinates}
        \cup {ShopLocation(a, t, NilMap, x) : a \in accts, t \in tags, x \in shops}

NoModelsCall == [op |-> "none", data |-> NilRaw, location |-> NoLocation, err |-> <<>>]

InitModels ==
    /\ table = {}
    /\ indexOrder = UuidPool
    /\ last = NoModelsCall
    /\ sess = IdleSess

CallUnmarshalLocation ==
    \E data \in Payloads :
      \E r \in {UnmarshalLocation(data)} :
        /\ last' = [op |-> "UnmarshalLocation", data |-> data,
                    location |-> r.location, err |-> r.err]
        /\ UNCHANGED <<table, indexOrder, sess>>

\* Validate on a value a caller built, and on the location the last
\* UnmarshalLocation returned.
CallValidate ==
    \/ \E location \in LocationValues :
         /\ last' = [op |-> "Validate", data |-> NilRaw, location |-> location,
                     err |-> Validate(location)]
         /\ UNCHANGED <<table, indexOrder, sess>>
    \/ /\ last.op = "UnmarshalLocation"
       /\ last.err = <<>>
       /\ last' = [last EXCEPT !.op = "Validate", !.err = Validate(last.location)]
       /\ UNCHANGED <<table, indexOrder, sess>>

NextModels == CallUnmarshalLocation \/ CallValidate

SpecModels == InitModels /\ [][NextModels]_vars

(***************************************************************************)
(* Get and List on a table as they find it: tables that hold more records  *)
(* of one account than the default page size, and tables whose records     *)
(* another writer of the store left with any locationType beside any shape *)
(* blocks.                                                                 *)
(***************************************************************************)

\* The index order of the tables below; UuidPool is its beginning.
PagePool ==
    [n \in 1..(IF MaxUuids > MaxPageRecords THEN MaxUuids ELSE MaxPageRecords) |->
        UUIDString(NewUUID(n))]

\* Records with each locationType and each choice of shape blocks.
StoredRecords(id) ==
    {[NoRecord EXCEPT !.PK = id, !.SK = a, !.AccountID = a, !.LocationType = t,
                      !.Address = ad, !.Coordinates = co] :
        a \in Accounts,
        t \in {LocationTypeAddress, LocationTypeCoordinates, LocationTypeShop},
        ad \in {NilAddress, [null |-> FALSE, val |-> MainSt]},
        co \in {NilCoordinates, [null |-> FALSE, val |-> NewYork]}}

\* The tables: none, one, or a record of acc-1 that converts followed by one
\* of the stored records; and 19, 20 and 21 records of acc-1.
StoredTables ==
    LET item(n) == MarshalMap(toLocationRecord(
                                AddressLocation("acc-1", LocationTypeAddress, NilMap, MainSt),
                                PagePool[n]).record, TRUE)
    IN  {{}}
        \cup {{MarshalMap(r, TRUE)} : r \in StoredRecords(PagePool[1])}
        \cup {{item(1), MarshalMap(r, TRUE)} : r \in StoredRecords(PagePool[2])}
        \cup {{item(n) : n \in 1..k} : k \in (MaxPageRecords - 2)..MaxPageRecords}

InitStored ==
    /\ table \in StoredTables
    /\ indexOrder = PagePool
    /\ last = NoCall
    /\ sess = IdleSess

NextStored == CallGet \/ CallList

SpecStored == InitStored /\ [][NextStored]_vars

(***************************************************************************)
(* Properties                                                              *)
(***************************************************************************)
NotFound == <<"location not found">>
NotFoundOrDenied == <<"location not found or access denied">>
AlreadyExists == <<"location already exists">>

\* Equal locations: the same variant, tag, account and shape, and the same
\* extended attributes as a mapping (a nil map and a map without entries
\* hold the same attributes).
SameLocation(x, y) ==
    /\ x.variant = y.variant
    /\ x.variant # "nil"
    /\ x.accountId = y.accountId
    /\ x.locationType = y.locationType
    /\ x.extendedAttributes.entries = y.extendedAttributes.entries
    /\ x.variant = "AddressLocation" => x.address = y.address
    /\ x.variant = "CoordinatesLocation" => x.coordinates = y.coordinates
    /\ x.variant = "ShopLocation" => x.shop = y.shop

ValidAddressLocations == {l \in ValidLocations : l.variant = "AddressLocation"}

\* The store answered the request of the last call (it did not fail).
Answered == last.requests = 1 /\ ~Contains(last.err, StoreFailure)

\* C1: Create of a valid AddressLocation L passes validation and mapping and
\* sends one put; when the store accepts it, Create returns an identifier of
\* 36 characters under which the record is stored, and Get(L.accountId, id)
\* on the table as Create left it returns a location equal to L.
C1_CreateThenGet ==
    (last.op = "Create" /\ last.location \in ValidAddressLocations) =>
        /\ last.requests = 1
        /\ last.err \in {<<>>, AlreadyExists, <<"failed to create location", StoreFailure>>}
        /\ last.err = <<>> =>
             /\ Len(last.id) = 36
             /\ Get(table, last.location.accountId, last.id, TRUE).err = <<>>
             /\ SameLocation(Get(table, last.location.accountId, last.id, TRUE).location,
                             last.location)

C1_Witness ==
    /\ last.op = "Create"
    /\ last.location = AddressLocation("acc-1", LocationTypeAddress, AcmeMap, OakAve)
    /\ last.err = <<>>
    /\ Len(last.id) = 36
    /\ Get(table, "acc-1", last.id, TRUE).location = last.location

\* No record of the table before the last call has identifier id and account a.
NoRecordOf(a, id) == \A it \in last.pre : ~(it.PK = id /\ it.accountId = a)

\* C2: Update(L, id) when no record has identifier id, or the records with
\* identifier id belong to accounts other than L.accountId, never succeeds,
\* leaves the table as it was, and fails with "location not found or access
\* denied" whenever the store answers.
C2_UpdateNotFoundOrDenied ==
    (last.op = "Update" /\ last.location \in ValidLocations
        /\ NoRecordOf(last.location.accountId, last.locationID)) =>
        /\ last.err # <<>>
        /\ table = last.pre
        /\ Answered => last.err = NotFoundOrDenied

C2_Witness ==
    /\ last.op = "Update"
    /\ last.location \in ValidLocations
    /\ \E it \in last.pre :
          it.PK = last.locationID /\ it.accountId # last.location.accountId
    /\ NoRecordOf(last.location.accountId, last.locationID)
    /\ last.err = NotFoundOrDenied
    /\ table = last.pre

\* C3: Delete(a, id) on a record with identifier id owned by a, when the
\* store answers, succeeds and removes exactly that record: Get(a, id) then
\* fails with "location not found" and every other record is as before.
C3_DeleteRemovesRecord ==
    (last.op = "Delete" /\ ~NoRecordOf(last.accountID, last.locationID) /\ Answered) =>
        /\ last.err = <<>>
        /\ table = last.pre \ ItemAt(last.pre, last.locationID, last.accountID)
        /\ Cardinality(table) = Cardinality(last.pre) - 1
        /\ Get(table, last.accountID, last.locationID, TRUE).err = NotFound

C3_Witness ==
    /\ last.op = "Delete"
    /\ ~NoRecordOf(last.accountID, last.locationID)
    /\ last.err = <<>>
    /\ table # {}
    /\ Get(table, last.accountID, last.locationID, TRUE).err = NotFound

\* C4: Delete(b, id) when a record with identifier id belongs to another
\* account a and none to b never succeeds, fails with "location not found or
\* access denied" whenever the store answers, and leaves the table as it was:
\* Get(a, id) still returns the record.
C4_DeleteOtherAccount ==
    (last.op = "Delete" /\ NoRecordOf(last.accountID, last.locationID)) =>
        /\ last.err # <<>>
        /\ Answered => last.err = NotFoundOrDenied
        /\ table = last.pre
        /\ \A it \in last.pre :
              it.PK = last.locationID =>
                 /\ Get(table, it.accountId, it.PK, TRUE).err = <<>>
                 /\ Get(table, it.accountId, it.PK, TRUE)
                       = Get(last.pre, it.accountId, it.PK, TRUE)

C4_Witness ==
    /\ last.op = "Delete"
    /\ NoRecordOf(last.accountID, last.locationID)
    /\ \E it \in last.pre : it.PK = last.locationID /\ it.accountId # last.accountID
    /\ last.err = NotFoundOrDenied
    /\ \E it \in table : it.PK = last.locationID

\* C8: Create never writes a record under an identifier that a stored
\* record already has, whatever account owns that record.
C8_IdentifierNeverReused ==
    (last.op = "Create" /\ last.err = <<>>) =>
        \A it \in last.pre : it.PK # last.id

\* C9: Create and Update of a location that fails validation return an error
\* that starts with "validation failed" (Create with an empty identifier),
\* send no request to the store and leave the table as it was.
C9_ValidateBeforeStore ==
    (last.op \in {"Create", "Update"} /\ last.location \in InvalidLocations) =>
        /\ last.err # <<>>
        /\ Head(last.err) = "validation failed"
        /\ Len(last.err) = 2
        /\ last.id = ""
        /\ last.requests = 0
        /\ table = last.pre

C9_Witness ==
    /\ last.op = "Update"
    /\ last.location \in InvalidLocations
    /\ last.location.accountId # ""
    /\ ~NoRecordOf(last.location.accountId, last.locationID)
    /\ Contains(last.err, "validation failed")
    /\ last.requests = 0

\* The result of Update and of Delete that the caller with account b sees:
\* the error, and b's records afterwards.
OwnView(r, b) == [err |-> r.err, records |-> {it \in r.table : it.accountId = b}]

\* C10: the result of Update(L, id) with L.accountId = b and of Delete(b, id)
\* is the same on the table and on every table that has the same records of
\* b and any part of the other accounts' records; so an identifier owned by
\* another account gives the error of an identifier that does not exist.
C10_OtherAccountsInvisible ==
    \A b \in Accounts, id \in LocationIds, storeOk \in BOOLEAN :
        LET own == {it \in table : it.accountId = b}
        IN  \A others \in SUBSET (table \ own) :
               /\ OwnView(Delete(own \cup others, b, id, storeOk), b)
                     = OwnView(Delete(table, b, id, storeOk), b)
               /\ \A L \in {l \in InputLocations : l.accountId = b} :
                   \A omitEmptyMap \in EmptyMapChoices(L) :
                     OwnView(Update(own \cup others, L, id, omitEmptyMap, storeOk), b)
                        = OwnView(Update(table, L, id, omitEmptyMap, storeOk), b)

C10_Witness ==
    /\ last.op = "Delete"
    /\ last.err = NotFoundOrDenied
    /\ \E it \in table : it.PK = last.locationID /\ it.accountId # last.accountID
    /\ \E id \in LocationIds :
          /\ \A it \in table : it.PK # id
          /\ Delete(table, last.accountID, id, TRUE).err = last.err

\* The identifiers of the records of account a.
OwnIds(t, a) == {it.PK : it \in {x \in t : x.accountId = a}}

\* The page size in effect and the start key of the last List call.
LimitOf(options) ==
    IF ~options.null /\ ~options.Limit.null THEN options.Limit.val ELSE defaultLimit

StartKeyOf(options) ==
    IF options.null THEN NilKey
    ELSE cursorToLastEvaluatedKey(decodeCursor(options.Cursor).cursor)

WithoutCursor(options) ==
    options.null \/ options.Cursor.null \/ options.Cursor.val = <<>>

\* C5: a List without cursor for an account that has more records than the
\* page limit returns a cursor; and the pages of a chain of List calls, each
\* with the cursor the previous one returned and no write in between, hold
\* no record twice, hold records of the account only, and once a call
\* returns no cursor hold every record of the account.
C5_PagesCoverAccountOnce ==
    /\ (last.op = "List" /\ last.err = <<>> /\ WithoutCursor(last.options)
          /\ Cardinality(OwnIds(table, last.accountID)) > LimitOf(last.options))
          => ~last.nextCursor.null
    /\ sess.state # "idle" =>
          /\ NoDup(sess.seen)
          /\ Range(sess.seen) \subseteq OwnIds(table, sess.accountID)
    /\ sess.state = "done" => Range(sess.seen) = OwnIds(table, sess.accountID)

C5_Witness ==
    /\ last.op = "List"
    /\ last.err = <<>>
    /\ ~WithoutCursor(last.options)
    /\ last.pks # <<>>
    /\ sess.state = "done"
    /\ Len(sess.seen) > Len(last.pks)
    /\ Range(sess.seen) = OwnIds(table, sess.accountID)
    /\ \E it \in table : it.accountId # sess.accountID

Ascending(ids) == \A i, j \in DOMAIN ids : i < j => IdLess(ids[i], ids[j])

\* C6: within one page and across the pages of a chain, List returns the
\* locations in ascending order of location identifier.
C6_AscendingIdentifiers ==
    /\ (last.op = "List" /\ last.err = <<>>) => Ascending(last.pks)
    /\ sess.state # "idle" => Ascending(sess.seen)

\* C7: List returns a cursor if and only if records of the account remain
\* beyond the page it returned.
C7_CursorIffMoreRemain ==
    (last.op = "List" /\ last.err = <<>>) =>
        (~last.nextCursor.null
            <=> Len(IndexAfter(table, indexOrder, last.accountID,
                               StartKeyOf(last.options))) > Len(last.pks))

\* The (identifier, account) keys of the records of a table.
Keys(t) == {<<it.PK, it.SK>> : it \in t}

\* C11: the keys of the stored records are fixed between Create and Delete.
\* Update, successful or not, leaves the set of (identifier, account) keys as
\* it was and every record other than (id, L.accountId) as it was; Get
\* changes nothing; Create removes and rewrites no record and Delete adds
\* and rewrites none; every record carries its account in the sort key and
\* in the accountId attribute alike.
C11_KeysImmutable ==
    /\ \A it \in table : it.SK = it.accountId /\ it.PK \in LocationIds
    /\ last.op = "Update" =>
          /\ Keys(table) = Keys(last.pre)
          /\ table \ ItemAt(table, last.locationID, last.location.accountId)
                = last.pre \ ItemAt(last.pre, last.locationID, last.location.accountId)
          /\ last.err # <<>> => table = last.pre
    /\ last.op = "Get" => table = last.pre
    /\ last.op = "Create" => last.pre \subseteq table
    /\ last.op = "Delete" => table \subseteq last.pre

C11_Witness ==
    /\ last.op = "Update"
    /\ last.err = <<>>
    /\ table # last.pre
    /\ Cardinality(table) = 2
    /\ Keys(table) = Keys(last.pre)

\* The shape blocks an item has.
ShapeBlocks(it) == DOMAIN it \cap {"address", "coordinates", "shop"}

\* C12: after a successful Update(L, id), Get(L.accountId, id) returns a
\* location equal to L, and the stored record holds the shape block of L's
\* variant and no other, and the extended attributes of L and no other.
C12_UpdateReplacesRecord ==
    (last.op = "Update" /\ last.err = <<>>) =>
        LET got == Get(table, last.location.accountId, last.locationID, TRUE)
        IN  /\ got.err = <<>>
            /\ SameLocation(got.location, last.location)
            /\ \A it \in ItemAt(table, last.locationID, last.location.accountId) :
                  /\ ShapeBlocks(it) = {ShapeName(last.location)}
                  /\ it.locationType = last.location.locationType
                  /\ "extendedAttributes" \in DOMAIN it =>
                        /\ ~last.location.extendedAttributes.null
                        /\ it.extendedAttributes = last.location.extendedAttributes.entries
                  /\ "extendedAttributes" \notin DOMAIN it =>
                        last.location.extendedAttributes.entries = {}

C12_Witness ==
    /\ last.op = "Update"
    /\ last.err = <<>>
    /\ last.location.variant = "CoordinatesLocation"
    /\ \E old \in ItemAt(last.pre, last.locationID, last.location.accountId) :
          /\ ShapeBlocks(old) = {"address"}
          /\ "extendedAttributes" \in DOMAIN old
    /\ \E it \in ItemAt(table, last.locationID, last.location.accountId) :
          /\ ShapeBlocks(it) = {"coordinates"}
          /\ "extendedAttributes" \notin DOMAIN it
    /\ Get(table, last.location.accountId, last.locationID, TRUE).location = last.location

\* The shape blocks a locationRecord has populated.
PopulatedBlocks(r) == {n \in {"Address", "Coordinates"} : ~r[n].null}

MappingFailed == "failed to convert location to record"

\* C13: for a valid location of each of the three variants that Create or
\* Update is called with, toLocationRecord succeeds and yields a record with
\* exactly one populated shape block, toLocation of that record returns the
\* same variant, and the call does not fail at the mapping step.
C13_MappingCoversVariants ==
    (last.op \in {"Create", "Update"} /\ Validate(last.location) = <<>>) =>
        LET conv == toLocationRecord(last.location, UuidPool[1])
        IN  /\ conv.err = <<>>
            /\ Cardinality(PopulatedBlocks(conv.record)) = 1
            /\ toLocation(conv.record).err = <<>>
            /\ toLocation(conv.record).location.variant = last.location.variant
            /\ ~Contains(last.err, MappingFailed)

\* The part of C13 that holds: the address and coordinates variants.
C13_AddressAndCoordinatesMap ==
    (last.op \in {"Create", "Update"} /\ Validate(last.location) = <<>>
        /\ last.location.variant # "ShopLocation") =>
        LET conv == toLocationRecord(last.location, UuidPool[1])
        IN  /\ conv.err = <<>>
            /\ Cardinality(PopulatedBlocks(conv.record)) = 1
            /\ toLocation(conv.record).location = last.location
            /\ ~Contains(last.err, MappingFailed)

\* Create of a valid ShopLocation fails at the mapping step.
C13_ShopRejected ==
    /\ last.op = "Create"
    /\ last.location \in ShopLocations
    /\ Validate(last.location) = <<>>
    /\ last.err = <<MappingFailed, "unknown location type">>
    /\ last.requests = 0

(***************************************************************************)
(* Properties of the handler                                               *)
(***************************************************************************)
RecognizedFields ==
    {"createLocation", "createAddressLocation", "createCoordinatesLocation",
     "createShopLocation", "getLocation", "updateLocation", "updateAddressLocation",
     "updateCoordinatesLocation", "updateShopLocation", "deleteLocation",
     "listLocations"}

\* C14: an event whose field is none of the recognized operation names makes
\* Handle return the nil result and the error "unknown field: <field>", with
\* no call of the repository and the table as it was.
C14_UnknownField ==
    (last.op = "Handle" /\ last.event.Field \notin RecognizedFields) =>
        /\ last.result.type = "nil"
        /\ last.result = NilInterface
        /\ last.err = <<"unknown field: " \o last.event.Field>>
        /\ last.repo.op = "none"
        /\ table = last.pre

C14_Witness ==
    /\ last.op = "Handle"
    /\ last.event.Field = "unknownOperation"
    /\ last.result = NilInterface
    /\ last.err = <<"unknown field: unknownOperation">>

\* What the environment of one invocation may decide.
Envs ==
    [locationID : {UuidPool[1], UuidPool[MaxUuids]}, omitEmptyMap : BOOLEAN,
     storeOk : BOOLEAN, lekAtEnd : BOOLEAN]

\* The names of the action a field belongs to.
FieldsOfAction(field) ==
    CASE field \in {"createLocation", "createAddressLocation",
                    "createCoordinatesLocation", "createShopLocation"} ->
           {"createLocation", "createAddressLocation", "createCoordinatesLocation",
            "createShopLocation"}
      [] field \in {"updateLocation", "updateAddressLocation",
                    "updateCoordinatesLocation", "updateShopLocation"} ->
           {"updateLocation", "updateAddressLocation", "updateCoordinatesLocation",
            "updateShopLocation"}
      [] OTHER -> {field}

\* The handler and the repository operation of the action a field names.
ActionOf(field) ==
    CASE "createLocation" \in FieldsOfAction(field) -> "Create"
      [] "updateLocation" \in FieldsOfAction(field) -> "Update"
      [] field = "getLocation" -> "Get"
      [] field = "deleteLocation" -> "Delete"
      [] field = "listLocations" -> "List"
      [] OTHER -> "none"

HandlerOf(action, t, order, arguments, env) ==
    CASE action = "Create" -> handleCreateLocation(t, arguments, env)
      [] action = "Update" -> handleUpdateLocation(t, arguments, env)
      [] action = "Get" -> handleGetLocation(t, arguments, env)
      [] action = "Delete" -> handleDeleteLocation(t, arguments, env)
      [] action = "List" -> handleListLocations(t, order, arguments, env)

\* C15: Handle routes every name of an action to that action's handler: the
\* invocation called no repository operation other than the action's, and
\* on the table and the arguments of the invocation every name of the
\* action returns what the action's handler returns, whatever the
\* environment decides.
C15_AliasesRoute ==
    (last.op = "Handle" /\ last.event.Field \in RecognizedFields) =>
        LET action == ActionOf(last.event.Field)
        IN  /\ last.repo.op \in {action, "none"}
            /\ \A field \in FieldsOfAction(last.event.Field), env \in Envs :
                  Handle(last.pre, indexOrder,
                         AppSyncEvent(field, last.event.Arguments), env)
                     = HandlerOf(action, last.pre, indexOrder, last.event.Arguments, env)
            /\ \E env \in Envs :
                  LET r == HandlerOf(action, last.pre, indexOrder,
                                     last.event.Arguments, env)
                  IN  /\ r.result = last.result
                      /\ r.err = last.err
                      /\ r.table = table

C15_Witness ==
    /\ last.op = "Handle"
    /\ last.event.Field = "createCoordinatesLocation"
    /\ last.repo.op = "Create"
    /\ last.err = <<>>
    /\ \E it \in table \ last.pre : it.locationType = LocationTypeCoordinates

\* The last invocation: its field is one of fields and its arguments decoded.
Invoked(fields) == last.op = "Handle" /\ last.event.Field \in fields

GuideArguments(field) ==
    CASE field = "createAddressLocation" -> Raw(JObject([input |-> GuideAddressInput]))
      [] field = "createCoordinatesLocation" ->
           Raw(JObject([input |-> GuideCoordinatesInput]))

\* C16: createAddressLocation (createCoordinatesLocation) on an input of the
\* guide's shape, with accountId, address (coordinates) and extendedAttributes
\* and without locationType, creates an address (coordinates) location and
\* returns its identifier, unless the store refuses the identifier.
C16_GuideInputCreates ==
    (/\ Invoked({"createAddressLocation", "createCoordinatesLocation"})
     /\ last.event.Arguments = GuideArguments(last.event.Field)) =>
        /\ last.err \in {<<>>, <<"failed to create location">> \o AlreadyExists}
        /\ last.err = <<>> =>
              /\ last.result.type = "string"
              /\ Len(last.result.str) = 36
              /\ \E it \in table \ last.pre :
                    /\ it.PK = last.result.str
                    /\ it.locationType =
                          (IF last.event.Field = "createAddressLocation"
                           THEN LocationTypeAddress ELSE LocationTypeCoordinates)

\* The guide's input is refused at the decoding of the location.
C16_GuideInputRejected ==
    /\ Invoked({"createAddressLocation"})
    /\ last.event.Arguments = GuideArguments("createAddressLocation")
    /\ last.result = StringResult("")
    /\ last.err = <<"failed to unmarshal location", "unknown location type", "">>
    /\ last.repo.op = "none"
    /\ table = last.pre

\* C17: Handle for an update or a delete returns true and no error exactly
\* when the repository call was made and succeeded; when the repository's
\* Update (Delete) returns an error, Handle returns false and the error
\* "failed to update location" ("failed to delete location") around it.
C17_WriteFlagFollowsRepository ==
    Invoked(UpdateFields \cup {"deleteLocation"}) =>
        LET failure == IF last.event.Field = "deleteLocation"
                       THEN "failed to delete location" ELSE "failed to update location"
        IN  /\ last.result.type = "bool"
            /\ ~last.result.null
            /\ (last.result.bool /\ last.err = <<>>)
                  <=> (last.repo.op \in {"Update", "Delete"} /\ last.repo.err = <<>>)
            /\ last.result.bool <=> last.err = <<>>
            /\ (last.repo.op # "none" /\ last.repo.err # <<>>) =>
                  /\ last.result = BoolResult(FALSE)
                  /\ last.err = <<failure>> \o last.repo.err
                  /\ table = last.pre

C17_Witness ==
    /\ Invoked({"deleteLocation"})
    /\ last.repo.op = "Delete"
    /\ last.repo.err = NotFoundOrDenied
    /\ \E it \in table : it.PK = last.repo.locationID
    /\ last.result = BoolResult(FALSE)
    /\ last.err = <<"failed to delete location">> \o NotFoundOrDenied

\* C18: Handle for a create returns a string; without error it is the
\* identifier the repository's Create returned; when the arguments or the
\* location do not decode, or Create returns an error, it is the empty
\* string with an error that names the failing step.
C18_CreateReturnsIdentifier ==
    Invoked(CreateFields) =>
        /\ last.result.type = "string"
        /\ ~last.result.null
        /\ last.err = <<>> <=> (last.repo.op = "Create" /\ last.repo.err = <<>>)
        /\ last.err = <<>> =>
              /\ last.result.str = last.repo.id
              /\ last.repo.id \in LocationIds
              /\ \E it \in table : it.PK = last.result.str
        /\ last.err # <<>> => last.result.str = ""
        /\ last.repo.op = "none" =>
              /\ last.err # <<>>
              /\ Head(last.err) \in {"failed to unmarshal arguments",
                                     "failed to unmarshal location"}
        /\ (last.repo.op = "Create" /\ last.repo.err # <<>>) =>
              last.err = <<"failed to create location">> \o last.repo.err

C18_Witness ==
    /\ Invoked({"createLocation"})
    /\ last.repo.op = "Create"
    /\ last.err = <<>>
    /\ Len(last.result.str) = 36
    /\ last.result.str = last.repo.id
    /\ \E it \in table \ last.pre : it.PK = last.result.str

\* The type name the gateway expects for a locationType tag.
ExpectedTypeName(tag) ==
    IF tag = "address" THEN "AddressLocation"
    ELSE IF tag = "coordinates" THEN "CoordinatesLocation"
    ELSE "ShopLocation"

\* A flat field mapping of a location under an identifier: the location's
\* own members at the top level, locationId and __typename beside them.
FlatMapping(m, location, locationID) ==
    /\ DOMAIN m = {"accountId", "locationType", "locationId", "__typename",
                   ShapeName(location)}
                     \cup (IF location.extendedAttributes.entries = {} THEN {}
                           ELSE {"extendedAttributes"})
    /\ m["locationId"] = JString(locationID)
    /\ m["__typename"] = JString(ExpectedTypeName(location.locationType))
    /\ m["accountId"] = JString(location.accountId)
    /\ m["locationType"] = JString(location.locationType)
    /\ m[ShapeName(location)].kind = "object"
    /\ location.variant = "AddressLocation" =>
          m["address"].obj["streetAddress"] = JString(location.address.streetAddress)
    /\ location.variant = "CoordinatesLocation" =>
          m["coordinates"].obj["latitude"] = JNumber(location.coordinates.latitude)

\* C19: Handle for getLocation, when the repository's Get returns a
\* location, returns a flat field mapping of it in which locationId is the
\* requested identifier and __typename follows the locationType tag; when
\* Get returns an error it returns a nil mapping and the error "failed to get
\* location" around it.
C19_GetReturnsFlatMapping ==
    (Invoked({"getLocation"}) /\ last.repo.op = "Get") =>
        /\ last.result.type = "map"
        /\ last.repo.err # <<>> =>
              /\ last.result.null
              /\ last.err = <<"failed to get location">> \o last.repo.err
        /\ last.repo.err = <<>> =>
              /\ last.err = <<>>
              /\ ~last.result.null
              /\ last.repo.locationID
                    = StringVal(Member(last.event.Arguments.val, "locationId"))
              /\ FlatMapping(last.result.map, last.repo.location, last.repo.locationID)
              /\ \E it \in table :
                    /\ it.PK = last.result.map["locationId"].str
                    /\ it.SK = last.result.map["accountId"].str
                    /\ it.locationType = last.result.map["locationType"].str

C19_Witness ==
    /\ Invoked({"getLocation"})
    /\ last.err = <<>>
    /\ last.repo.location.variant = "CoordinatesLocation"
    /\ last.result.map["__typename"] = JString("CoordinatesLocation")
    /\ last.result.map["locationId"] = JString(UuidPool[1])
    /\ last.result.map["coordinates"] = CoordinatesJSON(NewYork)

SuppliedListMember(arguments, name) ==
    IF name \in DOMAIN arguments.val.obj
    THEN arguments.val.obj[name]
    ELSE Member(Member(arguments.val, "options"), name)

\* The position of an identifier in the order the index yields.
Position(id) == IndexOf(indexOrder, id)

\* Invocation next of listLocations resumes the listing of invocation prev:
\* when prev returned a cursor and next supplied it for the same account over
\* the same table, every record next returns comes after the last record
\* prev returned.
Resumes(prev, next) ==
    (/\ prev.op = "Handle" /\ prev.event.Field = "listLocations"
     /\ prev.err = <<>> /\ ~prev.repo.nextCursor.null
     /\ prev.repo.pks # <<>>
     /\ next.repo.accountID = prev.repo.accountID
     /\ SuppliedListMember(next.event.Arguments, "cursor")
            = JText(prev.repo.nextCursor.val)
     /\ next.err = <<>>) =>
        \A i \in DOMAIN next.repo.pks :
            Position(next.repo.pks[i]) > Position(prev.repo.pks[Len(prev.repo.pks)])

\* C21: Handle for listLocations passes the page limit and the cursor the
\* caller supplied to the repository's List unchanged, both absent when not
\* supplied, and a cursor one listLocations call returned, supplied on the
\* next call, resumes the listing after the last record returned.
C21_ListPassesLimitAndCursor ==
    [][(last'.op = "Handle" /\ last'.event.Field = "listLocations"
            /\ last'.repo.op = "List") =>
          /\ last'.repo.options.Limit
                = Int32Ptr(SuppliedListMember(last'.event.Arguments, "limit"))
          /\ last'.repo.options.Cursor
                = StringPtrVal(SuppliedListMember(last'.event.Arguments, "cursor"))
          /\ Resumes(last, last')]_vars

\* The limit and the cursor of the options object do not reach List: the
\* listing starts again from the first record, with the default page size.
C21_OptionsIgnored ==
    /\ Invoked({"listLocations"})
    /\ last.err = <<>>
    /\ "options" \in DOMAIN last.event.Arguments.val.obj
    /\ Member(last.event.Arguments.val, "options").obj["limit"] = JNumber(1)
    /\ "cursor" \in DOMAIN Member(last.event.Arguments.val, "options").obj
    /\ last.repo.options.Limit = NilInt32
    /\ last.repo.options.Cursor = NilString
    /\ Len(last.repo.pks) = 2
    /\ last.repo.pks[1] = UuidPool[1]

\* The part of C21 that holds: limit and cursor given as members of the
\* arguments reach List unchanged and the listing resumes.
C21_MembersPassed ==
    [][(last'.op = "Handle" /\ last'.event.Field = "listLocations"
            /\ last'.repo.op = "List"
            /\ "options" \notin DOMAIN last'.event.Arguments.val.obj) =>
          /\ last'.repo.options.Limit
                = Int32Ptr(Member(last'.event.Arguments.val, "limit"))
          /\ last'.repo.options.Cursor
                = StringPtrVal(Member(last'.event.Arguments.val, "cursor"))
          /\ Resumes(last, last')]_vars

(***************************************************************************)
(* Properties of the models                                                *)
(***************************************************************************)
LocationTypes == {LocationTypeAddress, LocationTypeCoordinates, LocationTypeShop}

AddressRules(a) ==
    /\ a.streetAddress # ""
    /\ a.city # ""
    /\ a.postalCode # ""
    /\ Len(a.country) = 2

CoordinatesRules(c) ==
    /\ c.latitude \in -90..90
    /\ c.longitude \in -180..180
    /\ c.accuracy.null \/ c.accuracy.val >= 0

ShopRules(s) == s.name # "" /\ s.contactId # "" /\ AddressRules(s.address)

TagOfVariant(l) ==
    CASE l.variant = "AddressLocation" -> LocationTypeAddress
      [] l.variant = "CoordinatesLocation" -> LocationTypeCoordinates
      [] l.variant = "ShopLocation" -> LocationTypeShop

LocationRules(l) ==
    /\ l.accountId # ""
    /\ l.locationType = TagOfVariant(l)
    /\ CASE l.variant = "AddressLocation" -> AddressRules(l.address)
         [] l.variant = "CoordinatesLocation" -> CoordinatesRules(l.coordinates)
         [] l.variant = "ShopLocation" -> ShopRules(l.shop)

\* The address a message about an address field is about.
AddressOf(l) == IF l.variant = "ShopLocation" THEN l.shop.address ELSE l.address

\* The message names a field or bound that the location violates.
NamesViolation(msg, l) ==
    CASE msg = "accountId is required" -> l.accountId = ""
      [] msg = "invalid locationType for " \o l.variant ->
            l.locationType # TagOfVariant(l)
      [] msg = "streetAddress is required" ->
            l.variant # "CoordinatesLocation" /\ AddressOf(l).streetAddress = ""
      [] msg = "city is required" ->
            l.variant # "CoordinatesLocation" /\ AddressOf(l).city = ""
      [] msg = "postalCode is required" ->
            l.variant # "CoordinatesLocation" /\ AddressOf(l).postalCode = ""
      [] msg = "country is required" ->
            l.variant # "CoordinatesLocation" /\ AddressOf(l).country = ""
      [] msg = "country must be a 2-character ISO 3166-1 alpha-2 code" ->
            l.variant # "CoordinatesLocation" /\ Len(AddressOf(l).country) # 2
      [] msg = "latitude must be between -90 and 90" ->
            l.variant = "CoordinatesLocation" /\ l.coordinates.latitude \notin -90..90
      [] msg = "longitude must be between -180 and 180" ->
            l.variant = "CoordinatesLocation" /\ l.coordinates.longitude \notin -180..180
      [] msg = "accuracy must be non-negative" ->
            /\ l.variant = "CoordinatesLocation"
            /\ ~l.coordinates.accuracy.null
            /\ l.coordinates.accuracy.val < 0
      [] msg = "name is required" -> l.variant = "ShopLocation" /\ l.shop.name = ""
      [] msg = "contactId is required" ->
            l.variant = "ShopLocation" /\ l.shop.contactId = ""
      [] OTHER -> FALSE

FlatShopPayload(data) ==
    /\ data.text = "json"
    /\ Member(data.val, "locationType") = JString(LocationTypeShop)
    /\ Member(data.val, "shop") = FlatShopJSON

\* C24: a shop payload whose shop object carries name, contactId and the
\* address fields directly decodes to a ShopLocation exposing exactly those
\* values, and with a non-empty account that location passes validation.
C24_FlatShopDecodes ==
    FlatShopPayload(last.data) =>
        /\ (last.op = "UnmarshalLocation" /\ last.err = <<>>) =>
              /\ last.location.variant = "ShopLocation"
              /\ last.location.shop.name = "Coffee Shop"
              /\ last.location.shop.contactId = "contact-1"
              /\ last.location.shop.address =
                    Address("123 Main St", "Suite 100", "Springfield", "IL", "12345", "US")
        /\ (last.op = "Validate" /\ last.location.accountId = "acc-1") =>
              last.err = <<>>

\* The flat shop payload decodes to a shop with name and contactId and the
\* zero address, which Validate rejects.
C24_FlatShopLosesAddress ==
    /\ last.op = "Validate"
    /\ FlatShopPayload(last.data)
    /\ last.location.variant = "ShopLocation"
    /\ last.location.accountId = "acc-1"
    /\ last.location.shop.name = "Coffee Shop"
    /\ last.location.shop.contactId = "contact-1"
    /\ last.location.shop.address = ZeroAddress
    /\ last.err = <<"streetAddress is required">>

(***************************************************************************)
(* Properties of Get and List on stored tables                             *)
(***************************************************************************)
\* The page size the claim states for a List call.
PageSize(options) ==
    IF options.null \/ options.Limit.null THEN 20 ELSE options.Limit.val

Min(x, y) == IF x < y THEN x ELSE y

\* C25: List uses a page size of 20 when the caller supplies no limit
\* (options absent or limit absent) and the caller's limit otherwise: a page
\* never holds more locations than the page size in effect, and holds that
\* many when that many records of the account remain.
C25_PageSize ==
    (last.op = "List" /\ last.err = <<>>) =>
        /\ Len(last.locations) <= PageSize(last.options)
        /\ Len(last.locations) =
              Min(PageSize(last.options),
                  Len(IndexAfter(last.pre, indexOrder, last.accountID,
                                 StartKeyOf(last.options))))

C25_Witness ==
    /\ last.op = "List"
    /\ last.err = <<>>
    /\ ~last.options.null
    /\ last.options.Limit.null
    /\ Cardinality(OwnIds(last.pre, last.accountID)) = MaxPageRecords
    /\ Len(last.locations) = 20
    /\ ~last.nextCursor.null

\* An item whose locationType has no matching shape block, or is no variant
\* the repository knows.
Unconvertible(it) ==
    ~ \/ it.locationType = LocationTypeAddress /\ "address" \in DOMAIN it
      \/ it.locationType = LocationTypeCoordinates /\ "coordinates" \in DOMAIN it

\* The items of the page the last List call asked for, in index order.
PageItems ==
    LET rest == IndexAfter(last.pre, indexOrder, last.accountID, StartKeyOf(last.options))
        n == Min(PageSize(last.options), Len(rest))
    IN  {it \in last.pre : it.accountId = last.accountID
                              /\ \E i \in 1..n : rest[i] = it.PK}

\* C26: Get of a stored record, and List of a page that holds a stored
\* record, whose locationType has no matching shape block or is not a known
\* variant return an error and no location; every location they return was
\* made from a record that has the block of its locationType.
C26_CorruptRecordFails ==
    /\ last.op = "Get" =>
          \A it \in ItemAt(last.pre, last.locationID, last.accountID) :
            /\ Unconvertible(it) => last.err # <<>> /\ last.result = NoLocation
            /\ last.err = <<>> =>
                  /\ ~Unconvertible(it)
                  /\ last.result.locationType = it.locationType
                  /\ last.result.variant = "AddressLocation" =>
                        last.result.address = UnmarshalAddress(it.address)
                  /\ last.result.variant = "CoordinatesLocation" =>
                        last.result.coordinates = UnmarshalCoordinates(it.coordinates)
    /\ last.op = "List" =>
          /\ (\E it \in PageItems : Unconvertible(it)) =>
                last.err # <<>> /\ last.locations = <<>>
          /\ last.err = <<>> =>
                /\ Len(last.locations) = Cardinality(PageItems)
                /\ \A it \in PageItems : ~Unconvertible(it)

\* List of a page whose first record converts and whose second record is a
\* coordinates record without coordinates.
C26_Witness ==
    /\ last.op = "List"
    /\ Cardinality(PageItems) = 2
    /\ \E it \in PageItems : ~Unconvertible(it)
    /\ \E it \in PageItems : it.locationType = LocationTypeCoordinates
                                /\ "coordinates" \notin DOMAIN it
                                /\ "address" \in DOMAIN it
    /\ last.err = <<"failed to convert record to location",
                    "coordinates is nil for coordinates location type">>
    /\ last.locations = <<>>

RejectedBeforeStorage ==
    \/ last.event.Field \notin RecognizedFields
    \/ JSONSyntax(last.event.Arguments) # ""
    \/ last.err # <<>> /\ last.err[1] = "failed to unmarshal arguments"
    \/ /\ last.event.Field \in CreateFields \cup UpdateFields
       /\ UnmarshalLocation(RawMember(last.event.Arguments.val, "input")).err # <<>>

\* C28: when Handle rejects a request before storage it returns an error,
\* for a payload that does not decode one containing "failed to unmarshal
\* location", makes no repository call, and leaves the table as it was.
C28_RejectedBeforeStorage ==
    (last.op = "Handle" /\ RejectedBeforeStorage) =>
        /\ last.err # <<>>
        /\ last.err[1] \in {"unknown field: " \o last.event.Field,
                             "failed to unmarshal arguments",
                             "failed to unmarshal location"}
        /\ (last.event.Field \in CreateFields \cup UpdateFields
              /\ ArgumentsError(last.event.Arguments, {"locationId"}, {}) = <<>>)
              => Contains(last.err, "failed to unmarshal location")
        /\ last.repo.calls = 0
        /\ last.repo.requests = 0
        /\ table = last.pre

\* The invalid location data of the handler tests, on a table with a record.
C28_Witness ==
    /\ last.op = "Handle"
    /\ last.event.Field = "createLocation"
    /\ last.event.Arguments = Raw(JObject([input |-> JObject([invalid |-> JString("data")])]))
    /\ Contains(last.err, "failed to unmarshal location")
    /\ last.repo.op = "none"
    /\ last.pre # {}
    /\ table = last.pre

\* The account a cursor was minted for; "" when there is none.
CursorAccount(options) ==
    IF options.null THEN "" ELSE decodeCursor(options.Cursor).cursor.AccountID

\* C29: every location Get(a, id) or List(a, options) returns has accountId
\* a, whatever the options: also with a cursor a List call for another
\* account returned, and with the empty string as cursor, which gives what
\* the call without cursor gives.
C29_ReturnedOwnedByCaller ==
    /\ (last.op = "Get" /\ last.err = <<>>) => last.result.accountId = last.accountID
    /\ (last.op = "List" /\ last.err = <<>>) =>
          \A i \in DOMAIN last.locations : last.locations[i].accountId = last.accountID
    /\ (last.op = "List" /\ ~last.options.null /\ last.options.Cursor = StringPtr(<<>>)) =>
          \E lekAtEnd, storeOk \in BOOLEAN :
            \E r \in {List(last.pre, indexOrder, last.accountID,
                            ListOptions(last.options.Limit, NilString), lekAtEnd, storeOk)} :
              /\ r.err = last.err
              /\ r.locations = last.locations
              /\ r.nextCursor = last.nextCursor

\* List for one account with the cursor a List for the other account
\* returned, on a table with records of both.
C29_Witness ==
    /\ last.op = "List"
    /\ ~last.options.null
    /\ ~last.options.Cursor.null
    /\ CursorAccount(last.options) \in Accounts \ {last.accountID}
    /\ \E it \in table : it.accountId = last.accountID
    /\ \E it \in table : it.accountId = CursorAccount(last.options)
    /\ \A i \in DOMAIN last.locations : last.locations[i].accountId = last.accountID

(***************************************************************************)
(* Properties of interleaved Update and Delete.  Each operation makes one  *)
(* store request and reads the table in no other step, so the invocations  *)
(* in flight take effect in the order of their store requests: the order   *)
(* of the steps of Spec.                                                   *)
(***************************************************************************)
\* No Update for (id, a) and no Delete(a, id) succeeds on table t, and none
\* makes the record exist.
NoneSucceeds(t, a, id) ==
    \A storeOk \in BOOLEAN :
        /\ Delete(t, a, id, storeOk).err # <<>>
        /\ Delete(t, a, id, storeOk).table = t
        /\ \A L \in {l \in InputLocations : l.accountId = a} :
              \A omitEmptyMap \in EmptyMapChoices(L) :
                /\ Update(t, L, id, omitEmptyMap, storeOk).err # <<>>
                /\ Update(t, L, id, omitEmptyMap, storeOk).table = t

\* C30: with Update and Delete interleaved in any order of their store
\* requests, once Delete(a, id) has succeeded the record is gone and no
\* Update for (id, a) and no further Delete(a, id) succeeds until a Create
\* produces the identifier again: on every table without the record both
\* fail and leave the table as it is, only a successful Create adds a key,
\* and a Delete succeeds only on a table that holds the record.
C30_DeletedStaysDeleted ==
    /\ \A a \in Accounts, id \in LocationIds :
          ItemAt(table, id, a) = {} => NoneSucceeds(table, a, id)
    /\ (last.op = "Delete" /\ last.err = <<>>) =>
          /\ ItemAt(last.pre, last.locationID, last.accountID) # {}
          /\ ItemAt(table, last.locationID, last.accountID) = {}
    /\ (last.op = "Update" /\ last.err = <<>>) =>
          ItemAt(last.pre, last.locationID, last.location.accountId) # {}
    /\ Keys(table) \ Keys(last.pre) # {} => last.op = "Create" /\ last.err = <<>>

\* A Delete that reached the store and failed on a table without the record
\* while records of the account and of the other account are there.
C30_Witness ==
    /\ last.op = "Delete"
    /\ last.requests = 1
    /\ last.err = NotFoundOrDenied
    /\ ItemAt(last.pre, last.locationID, last.accountID) = {}
    /\ \E it \in table : it.accountId = last.accountID
    /\ \E it \in table : it.PK = last.locationID /\ it.accountId # last.accountID
    /\ table = last.pre

====
